---- MODULE Spec2Model ----
(***************************************************************************)
(* Wallet service: transactional double-entry ledger core.                 *)
(*                                                                         *)
(* The store is PostgreSQL.  Every flow runs inside withTransaction, i.e.  *)
(* BEGIN ISOLATION LEVEL SERIALIZABLE ... COMMIT / ROLLBACK.  The model    *)
(* keeps the parts of the store the flows depend on:                       *)
(*   - a transaction reads from the snapshot taken by its first query;     *)
(*   - SELECT ... FOR UPDATE takes an exclusive row lock, waits while      *)
(*     another session holds it, and raises 40001 when the row was changed *)
(*     by a transaction that committed after the snapshot;                 *)
(*   - the UNIQUE index on transactions.reference_id waits for an          *)
(*     uncommitted row with the same reference and raises 23505 for a      *)
(*     committed one, visible to the snapshot or not;                      *)
(*   - writes are private to the session until COMMIT.                     *)
(* Amounts are whole credits; parseFloat is exact on that range.           *)
(***************************************************************************)
EXTENDS Integers, Sequences, FiniteSets, TLC

\* ------------------------------------------------------------------ bounds
NumSessions == 2
MaxRequests == 2
MaxExpiries == 1

Sessions == 1..NumSessions

\* Number of calls in the contention scenario (SpecHot).
MaxHotRequests == 4

\* --------------------------------------------------------- seeded accounts
\* The rows 002_seed.sql inserts.
\* Account ids, numbered in the ascending order of their UUIDs.
NO_ACCOUNT        == 0
TREASURY_GOLD     == 1
TREASURY_DIAMONDS == 2
TREASURY_LOYALTY  == 3
REVENUE_GOLD      == 4
BONUS_GOLD        == 5
ALICE             == 6
BOB               == 7
CHARLIE           == 8

AccountIds == TREASURY_GOLD..CHARLIE

accounts ==
  [id \in AccountIds |->
     CASE id = TREASURY_GOLD     -> [external_id |-> "SYSTEM_TREASURY_GOLD",     account_type |-> "SYSTEM", asset_type_id |-> "GOLD_COINS",     is_active |-> TRUE]
       [] id = TREASURY_DIAMONDS -> [external_id |-> "SYSTEM_TREASURY_DIAMONDS", account_type |-> "SYSTEM", asset_type_id |-> "DIAMONDS",       is_active |-> TRUE]
       [] id = TREASURY_LOYALTY  -> [external_id |-> "SYSTEM_TREASURY_LOYALTY",  account_type |-> "SYSTEM", asset_type_id |-> "LOYALTY_POINTS", is_active |-> TRUE]
       [] id = REVENUE_GOLD      -> [external_id |-> "SYSTEM_REVENUE_GOLD",      account_type |-> "SYSTEM", asset_type_id |-> "GOLD_COINS",     is_active |-> TRUE]
       [] id = BONUS_GOLD        -> [external_id |-> "SYSTEM_BONUS_GOLD",        account_type |-> "SYSTEM", asset_type_id |-> "GOLD_COINS",     is_active |-> TRUE]
       [] id = ALICE             -> [external_id |-> "user_alice",               account_type |-> "USER",   asset_type_id |-> "GOLD_COINS",     is_active |-> TRUE]
       [] id = BOB               -> [external_id |-> "user_bob",                 account_type |-> "USER",   asset_type_id |-> "GOLD_COINS",     is_active |-> TRUE]
       [] id = CHARLIE           -> [external_id |-> "user_charlie",             account_type |-> "USER",   asset_type_id |-> "DIAMONDS",       is_active |-> TRUE]]

SeedBalance(id) ==
  CASE id = ALICE   -> 500
    [] id = BOB     -> 200
    [] id = CHARLIE -> 150
    [] OTHER        -> 0

SeedTransactions ==
  { [id |-> 1, type |-> "BONUS", reference_id |-> "SEED_OPENING_ALICE_GOLD"],
    [id |-> 2, type |-> "BONUS", reference_id |-> "SEED_OPENING_BOB_GOLD"],
    [id |-> 3, type |-> "BONUS", reference_id |-> "SEED_OPENING_CHARLIE_DIAMONDS"] }

SeedLedgerEntries ==
  { [transaction_id |-> 1, account_id |-> TREASURY_GOLD,     asset_type_id |-> "GOLD_COINS", amount |->  500, balance_after |-> -500],
    [transaction_id |-> 1, account_id |-> ALICE,             asset_type_id |-> "GOLD_COINS", amount |-> -500, balance_after |->  500],
    [transaction_id |-> 2, account_id |-> TREASURY_GOLD,     asset_type_id |-> "GOLD_COINS", amount |->  200, balance_after |-> -700],
    [transaction_id |-> 2, account_id |-> BOB,               asset_type_id |-> "GOLD_COINS", amount |-> -200, balance_after |->  200],
    [transaction_id |-> 3, account_id |-> TREASURY_DIAMONDS, asset_type_id |-> "DIAMONDS",   amount |->  150, balance_after |-> -150],
    [transaction_id |-> 3, account_id |-> CHARLIE,           asset_type_id |-> "DIAMONDS",   amount |-> -150, balance_after |->  150] }

FirstTxId == 4

\* ----------------------------------------------------------- request inputs
Flows     == {"TOP_UP", "BONUS", "SPEND"}
TargetIds == {ALICE, CHARLIE, NO_ACCOUNT}
Amounts   == {200, 300}
Refs      == {"r1", "r2"}

Requests ==
  [flow : Flows, accountId : TargetIds, amount : Amounts, referenceId : Refs]

NoReq == [flow |-> "NONE", accountId |-> NO_ACCOUNT, amount |-> 0, referenceId |-> ""]

\* ------------------------------------------------------------------- state
VARIABLES
  account_balances,   \* account id -> [balance, version]       (committed)
  transactions,       \* set of transaction rows                (committed)
  ledger_entries,     \* set of journal entries                 (committed)
  idempotency_keys,   \* set of idempotency records             (committed)
  sess,               \* session -> state of its withTransaction call
  responses,          \* HTTP responses sent so far, numbered in order
  nreq,               \* number of requests accepted so far
  nexp,               \* number of idempotency records expired so far
  nextTxId            \* next value produced by uuidv4()

vars == <<account_balances, transactions, ledger_entries, idempotency_keys,
          sess, responses, nreq, nexp, nextTxId>>

store == <<account_balances, transactions, ledger_entries, idempotency_keys>>

\* ------------------------------------------------------------ pure helpers
RECURSIVE SumAmounts(_)
SumAmounts(S) ==
  IF S = {} THEN 0
  ELSE LET e == CHOOSE x \in S : TRUE IN e.amount + SumAmounts(S \ {e})

RECURSIVE SortAsc(_)
\* [...new Set(accountIds)].sort() together with ORDER BY a.id ASC
SortAsc(S) ==
  IF S = {} THEN <<>>
  ELSE LET m == CHOOSE x \in S : \A y \in S : x <= y
       IN <<m>> \o SortAsc(S \ {m})

SeqToSet(q) == { q[i] : i \in 1..Len(q) }

parseFloat(x) == x

NoBody ==
  [transactionId |-> 0, referenceId |-> "", type |-> "NONE", accountId |-> NO_ACCOUNT,
   amount |-> 0, balanceAfter |-> 0, idempotent |-> FALSE]

NoErr == [code |-> "", statusCode |-> 0]

NoWrites ==
  [transactions |-> {}, ledger_entries |-> {}, updates |-> <<>>, idempotency_keys |-> {}]

NoSnap == [id \in AccountIds |-> [balance |-> 0, version |-> 0]]

\* A getTransactionHistory call: its arguments (type "" when none is given),
\* the rows of its page query and the total of its count query.
NoQuery ==
  [accountId |-> NO_ACCOUNT, limit |-> 0, offset |-> 0, type |-> "",
   entries |-> <<>>, total |-> 0]

IdleSession ==
  [pc |-> "idle", req |-> NoReq, attempt |-> 0, snap |-> NoSnap,
   toLock |-> <<>>, held |-> {}, sys |-> NO_ACCOUNT, writes |-> NoWrites,
   result |-> NoBody, err |-> NoErr, conn |-> 0, query |-> NoQuery]

\* A row of "accounts a JOIN account_balances ab" as a snapshot shows it.
AccountRow(snap, id) ==
  [id |-> id, account_type |-> accounts[id].account_type,
   asset_type_id |-> accounts[id].asset_type_id,
   balance |-> snap[id].balance, version |-> snap[id].version]

NoRow ==
  [id |-> NO_ACCOUNT, account_type |-> "NONE", asset_type_id |-> "", balance |-> 0, version |-> 0]

MakeErr(code, statusCode) == [code |-> code, statusCode |-> statusCode]

\* ------------------------------------------------------------ walletService
maxRetries == 3

SYSTEM_ACCOUNTS ==
  [TREASURY   |-> "SYSTEM_TREASURY_GOLD",
   DIAMONDS   |-> "SYSTEM_TREASURY_DIAMONDS",
   LOYALTY    |-> "SYSTEM_TREASURY_LOYALTY",
   REVENUE    |-> "SYSTEM_REVENUE_GOLD",
   BONUS_POOL |-> "SYSTEM_BONUS_GOLD"]

\* SELECT ... FROM accounts a JOIN account_balances ab ...
\*  WHERE a.external_id = $1 AND a.is_active = TRUE; rows[0] || null
getAccountByExternalId(snap, externalId) ==
  LET m == { id \in AccountIds \cap DOMAIN snap :
               accounts[id].external_id = externalId /\ accounts[id].is_active }
  IN IF m = {} THEN NoRow ELSE AccountRow(snap, CHOOSE id \in m : TRUE)

\* A locking query without sort() and ORDER BY: the rows are locked in an
\* order that differs from one call to the next.
LockOrder_unordered(accountIds) ==
  LET asc == SortAsc({ id \in accountIds :
             id \in AccountIds \cap DOMAIN account_balances /\ accounts[id].is_active })
  IN IF nreq % 2 = 1 THEN asc ELSE [i \in 1..Len(asc) |-> asc[Len(asc) + 1 - i]]

\* A locking query that leaves the system account's row out.
LockOrder_userRowOnly(accountIds) ==
  SortAsc({ id \in accountIds :
             /\ id \in AccountIds \cap DOMAIN account_balances
             /\ accounts[id].is_active
             /\ accounts[id].account_type = "USER" })

\* The ids whose rows getAccountsWithLock locks, in the order it locks them.
LockOrder(accountIds) ==
  SortAsc({ id \in accountIds :
             id \in AccountIds \cap DOMAIN account_balances /\ accounts[id].is_active })

\* The rows getAccountsWithLock returns once every lock is held.
getAccountsWithLock(snap, accountIds) ==
  LET ids == SeqToSet(LockOrder(accountIds))
  IN [id \in ids |-> AccountRow(snap, id)]

\* accounts.find((a) => a.id === id)
Find(rows, id) == IF id \in DOMAIN rows THEN rows[id] ELSE NoRow

\* postDoubleEntry with the credit entry written with the debit's sign.
postDoubleEntry_creditEntryPositive(transactionId, debitAccount, creditAccount, amount, assetTypeId) ==
  LET debitNewBalance  == parseFloat(debitAccount.balance)  - amount
      creditNewBalance == parseFloat(creditAccount.balance) + amount
  IN IF debitAccount.account_type = "USER" /\ debitNewBalance < 0
     THEN [err |-> MakeErr("INSUFFICIENT_BALANCE", 422), ledger_entries |-> {},
           updates |-> <<>>, debitNewBalance |-> 0, creditNewBalance |-> 0]
     ELSE [err |-> NoErr,
           ledger_entries |->
             { [transaction_id |-> transactionId, account_id |-> debitAccount.id,
                asset_type_id |-> assetTypeId, amount |-> amount,
                balance_after |-> debitNewBalance],
               [transaction_id |-> transactionId, account_id |-> creditAccount.id,
                asset_type_id |-> assetTypeId, amount |-> amount,
                balance_after |-> creditNewBalance] },
           updates |-> << [account_id |-> debitAccount.id,  balance |-> debitNewBalance],
                          [account_id |-> creditAccount.id, balance |-> creditNewBalance] >>,
           debitNewBalance |-> debitNewBalance, creditNewBalance |-> creditNewBalance]

\* postDoubleEntry with the credited balance computed by subtraction.
postDoubleEntry_creditSubtracts(transactionId, debitAccount, creditAccount, amount, assetTypeId) ==
  LET debitNewBalance  == parseFloat(debitAccount.balance)  - amount
      creditNewBalance == parseFloat(creditAccount.balance) - amount
  IN IF debitAccount.account_type = "USER" /\ debitNewBalance < 0
     THEN [err |-> MakeErr("INSUFFICIENT_BALANCE", 422), ledger_entries |-> {},
           updates |-> <<>>, debitNewBalance |-> 0, creditNewBalance |-> 0]
     ELSE [err |-> NoErr,
           ledger_entries |->
             { [transaction_id |-> transactionId, account_id |-> debitAccount.id,
                asset_type_id |-> assetTypeId, amount |-> amount,
                balance_after |-> debitNewBalance],
               [transaction_id |-> transactionId, account_id |-> creditAccount.id,
                asset_type_id |-> assetTypeId, amount |-> -amount,
                balance_after |-> creditNewBalance] },
           updates |-> << [account_id |-> debitAccount.id,  balance |-> debitNewBalance],
                          [account_id |-> creditAccount.id, balance |-> creditNewBalance] >>,
           debitNewBalance |-> debitNewBalance, creditNewBalance |-> creditNewBalance]

\* postDoubleEntry whose balance check applies to every debit account.
postDoubleEntry_checksEveryDebit(transactionId, debitAccount, creditAccount, amount, assetTypeId) ==
  LET debitNewBalance  == parseFloat(debitAccount.balance)  - amount
      creditNewBalance == parseFloat(creditAccount.balance) + amount
  IN IF debitNewBalance < 0
     THEN [err |-> MakeErr("INSUFFICIENT_BALANCE", 422), ledger_entries |-> {},
           updates |-> <<>>, debitNewBalance |-> 0, creditNewBalance |-> 0]
     ELSE [err |-> NoErr,
           ledger_entries |->
             { [transaction_id |-> transactionId, account_id |-> debitAccount.id,
                asset_type_id |-> assetTypeId, amount |-> amount,
                balance_after |-> debitNewBalance],
               [transaction_id |-> transactionId, account_id |-> creditAccount.id,
                asset_type_id |-> assetTypeId, amount |-> -amount,
                balance_after |-> creditNewBalance] },
           updates |-> << [account_id |-> debitAccount.id,  balance |-> debitNewBalance],
                          [account_id |-> creditAccount.id, balance |-> creditNewBalance] >>,
           debitNewBalance |-> debitNewBalance, creditNewBalance |-> creditNewBalance]

postDoubleEntry(transactionId, debitAccount, creditAccount, amount, assetTypeId) ==
  LET debitNewBalance  == parseFloat(debitAccount.balance)  - amount
      creditNewBalance == parseFloat(creditAccount.balance) + amount
  IN IF debitAccount.account_type = "USER" /\ debitNewBalance < 0
     THEN [err |-> MakeErr("INSUFFICIENT_BALANCE", 422), ledger_entries |-> {},
           updates |-> <<>>, debitNewBalance |-> 0, creditNewBalance |-> 0]
     ELSE [err |-> NoErr,
           ledger_entries |->
             { [transaction_id |-> transactionId, account_id |-> debitAccount.id,
                asset_type_id |-> assetTypeId, amount |-> amount,
                balance_after |-> debitNewBalance],
               [transaction_id |-> transactionId, account_id |-> creditAccount.id,
                asset_type_id |-> assetTypeId, amount |-> -amount,
                balance_after |-> creditNewBalance] },
           updates |-> << [account_id |-> debitAccount.id,  balance |-> debitNewBalance],
                          [account_id |-> creditAccount.id, balance |-> creditNewBalance] >>,
           debitNewBalance |-> debitNewBalance, creditNewBalance |-> creditNewBalance]

\* checkIdempotency that never finds a record.
checkIdempotency_never(keys, referenceId) == {}

\* checkIdempotency without the condition on expires_at.
checkIdempotency_ignoresExpiry(keys, referenceId) ==
  { k \in keys : k.key = referenceId }

\* SELECT ... FROM idempotency_keys WHERE key = $1 AND expires_at > NOW()
checkIdempotency(keys, referenceId) ==
  { k \in keys : k.key = referenceId /\ k.live }

\* A flow that does not record its response.
storeIdempotencyResult_nothing(keys, referenceId, statusCode, body) == {}

\* INSERT INTO idempotency_keys ... ON CONFLICT (key) DO NOTHING
storeIdempotencyResult(keys, referenceId, statusCode, body) ==
  IF \E k \in keys : k.key = referenceId
  THEN {}
  ELSE { [key |-> referenceId, response_status |-> statusCode,
          response_body |-> body, live |-> TRUE] }

\* Replay that returns the stored body untagged.
Replay_untagged(cached) == cached.response_body

\* { ...cached.response_body, idempotent: true }
Replay(cached) == [cached.response_body EXCEPT !.idempotent = TRUE]

Failed(err) == [err |-> err, writes |-> NoWrites, result |-> NoBody]

\* transactions.reference_id without its UNIQUE constraint.
UniqueViolation_never(txRows, referenceId) == FALSE

\* INSERT INTO transactions ...: the UNIQUE index on reference_id
UniqueViolation(txRows, referenceId) == \E t \in txRows : t.reference_id = referenceId

\* A response object that reports the counterparty's balance.
Post_balanceOfCounterparty(type, req, txId, debit, credit, userIsDebit, assetTypeId, txRows, keys) ==
  IF UniqueViolation(txRows, req.referenceId)
  THEN Failed(MakeErr("23505", 0))
  ELSE
    LET p == postDoubleEntry(txId, debit, credit, req.amount, assetTypeId)
        result == [transactionId |-> txId, referenceId |-> req.referenceId,
                   type |-> type, accountId |-> req.accountId, amount |-> req.amount,
                   balanceAfter |-> IF userIsDebit THEN p.creditNewBalance
                                                   ELSE p.debitNewBalance,
                   idempotent |-> FALSE]
        row == [id |-> txId, type |-> type, reference_id |-> req.referenceId]
    IN IF p.err # NoErr
       THEN [Failed(p.err) EXCEPT !.writes.transactions = {row}]
       ELSE [err |-> NoErr,
             writes |-> [transactions |-> {row},
                         ledger_entries |-> p.ledger_entries,
                         updates |-> p.updates,
                         idempotency_keys |->
                           storeIdempotencyResult(keys, req.referenceId, 201, result)],
             result |-> result]

\* Steps 3-5 of a flow, shared text of the three handlers: the transaction
\* row, the posting, the response object and the idempotency record.
Post(type, req, txId, debit, credit, userIsDebit, assetTypeId, txRows, keys) ==
  IF UniqueViolation(txRows, req.referenceId)
  THEN Failed(MakeErr("23505", 0))
  ELSE
    LET p == postDoubleEntry(txId, debit, credit, req.amount, assetTypeId)
        result == [transactionId |-> txId, referenceId |-> req.referenceId,
                   type |-> type, accountId |-> req.accountId, amount |-> req.amount,
                   balanceAfter |-> IF userIsDebit THEN p.debitNewBalance
                                                   ELSE p.creditNewBalance,
                   idempotent |-> FALSE]
        row == [id |-> txId, type |-> type, reference_id |-> req.referenceId]
    IN IF p.err # NoErr
       THEN [Failed(p.err) EXCEPT !.writes.transactions = {row}]
       ELSE [err |-> NoErr,
             writes |-> [transactions |-> {row},
                         ledger_entries |-> p.ledger_entries,
                         updates |-> p.updates,
                         idempotency_keys |->
                           storeIdempotencyResult(keys, req.referenceId, 201, result)],
             result |-> result]

\* topUpWallet after the idempotency miss, with every row lock held.
topUpWallet(req, snap, txId, txRows, keys) ==
  LET treasury       == getAccountByExternalId(snap, SYSTEM_ACCOUNTS.TREASURY)
      rows           == getAccountsWithLock(snap, {req.accountId, treasury.id})
      userAccount    == Find(rows, req.accountId)
      treasuryLocked == Find(rows, treasury.id)
  IN IF userAccount = NoRow
     THEN Failed(MakeErr("ACCOUNT_NOT_FOUND", 404))
     ELSE IF userAccount.asset_type_id # treasury.asset_type_id
     THEN Failed(MakeErr("", 400))
     ELSE Post("TOP_UP", req, txId,
               IF treasuryLocked # NoRow THEN treasuryLocked ELSE treasury,
               userAccount, FALSE, userAccount.asset_type_id, txRows, keys)

issueBonus(req, snap, txId, txRows, keys) ==
  LET bonusPool       == getAccountByExternalId(snap, SYSTEM_ACCOUNTS.BONUS_POOL)
      rows            == getAccountsWithLock(snap, {req.accountId, bonusPool.id})
      userAccount     == Find(rows, req.accountId)
      bonusPoolLocked == Find(rows, bonusPool.id)
  IN IF userAccount = NoRow
     THEN Failed(MakeErr("ACCOUNT_NOT_FOUND", 404))
     ELSE Post("BONUS", req, txId,
               IF bonusPoolLocked # NoRow THEN bonusPoolLocked ELSE bonusPool,
               userAccount, FALSE, userAccount.asset_type_id, txRows, keys)

\* spendCredits without its balance check before the insert: the refusal
\* comes from postDoubleEntry, after the transaction row is written.
spendCredits_noPrecheck(req, snap, txId, txRows, keys) ==
  LET revenue       == getAccountByExternalId(snap, SYSTEM_ACCOUNTS.REVENUE)
      rows          == getAccountsWithLock(snap, {req.accountId, revenue.id})
      userAccount   == Find(rows, req.accountId)
      revenueLocked == Find(rows, revenue.id)
  IN IF userAccount = NoRow
     THEN Failed(MakeErr("ACCOUNT_NOT_FOUND", 404))
     ELSE Post("SPEND", req, txId, userAccount,
               IF revenueLocked # NoRow THEN revenueLocked ELSE revenue,
               TRUE, userAccount.asset_type_id, txRows, keys)

\* spendCredits whose balance check refuses a spend of the whole balance.
spendCredits_refusesWholeBalance(req, snap, txId, txRows, keys) ==
  LET revenue       == getAccountByExternalId(snap, SYSTEM_ACCOUNTS.REVENUE)
      rows          == getAccountsWithLock(snap, {req.accountId, revenue.id})
      userAccount   == Find(rows, req.accountId)
      revenueLocked == Find(rows, revenue.id)
  IN IF userAccount = NoRow
     THEN Failed(MakeErr("ACCOUNT_NOT_FOUND", 404))
     ELSE IF parseFloat(userAccount.balance) <= req.amount
     THEN Failed(MakeErr("INSUFFICIENT_BALANCE", 422))
     ELSE Post("SPEND", req, txId, userAccount,
               IF revenueLocked # NoRow THEN revenueLocked ELSE revenue,
               TRUE, userAccount.asset_type_id, txRows, keys)

spendCredits(req, snap, txId, txRows, keys) ==
  LET revenue       == getAccountByExternalId(snap, SYSTEM_ACCOUNTS.REVENUE)
      rows          == getAccountsWithLock(snap, {req.accountId, revenue.id})
      userAccount   == Find(rows, req.accountId)
      revenueLocked == Find(rows, revenue.id)
  IN IF userAccount = NoRow
     THEN Failed(MakeErr("ACCOUNT_NOT_FOUND", 404))
     ELSE IF parseFloat(userAccount.balance) < req.amount
     THEN Failed(MakeErr("INSUFFICIENT_BALANCE", 422))
     ELSE Post("SPEND", req, txId, userAccount,
               IF revenueLocked # NoRow THEN revenueLocked ELSE revenue,
               TRUE, userAccount.asset_type_id, txRows, keys)

\* The well-known external id a flow resolves its counterparty by.
CounterpartyOf(flow) ==
  CASE flow = "TOP_UP" -> SYSTEM_ACCOUNTS.TREASURY
    [] flow = "BONUS"  -> SYSTEM_ACCOUNTS.BONUS_POOL
    [] flow = "SPEND"  -> SYSTEM_ACCOUNTS.REVENUE

\* A missing counterparty reported as a missing account.
ConfigError_notFound(flow) == MakeErr("ACCOUNT_NOT_FOUND", 404)

\* throw Object.assign(new Error('... account not configured'), { statusCode: 500 })
ConfigError(flow) == MakeErr("", 500)

FlowBody(req, snap, txId, txRows, keys) ==
  CASE req.flow = "TOP_UP" -> topUpWallet(req, snap, txId, txRows, keys)
    [] req.flow = "BONUS"  -> issueBonus(req, snap, txId, txRows, keys)
    [] req.flow = "SPEND"  -> spendCredits(req, snap, txId, txRows, keys)

\* ------------------------------------------------- controller, errorHandler
\* const statusCode = result.idempotent ? 200 : 201
SuccessStatus(result) == IF result.idempotent THEN 200 ELSE 201

errorMap ==
  [ACCOUNT_NOT_FOUND    |-> 404,
   INSUFFICIENT_BALANCE |-> 422,
   DUPLICATE_REFERENCE  |-> 409,
   VALIDATION_ERROR     |-> 400,
   ASSET_MISMATCH       |-> 400]

errorHandler(err) ==
  LET mapped == err.code \in DOMAIN errorMap
      status == IF mapped THEN errorMap[err.code]
                ELSE IF err.statusCode # 0 THEN err.statusCode ELSE 500
  IN IF err.code = "23505"
     THEN [status |-> 409, code |-> "DUPLICATE_REFERENCE"]
     ELSE [status |-> status,
           code   |-> IF mapped THEN err.code ELSE "INTERNAL_ERROR"]

\* ------------------------------------------------------------------- audit
Abs(x) == IF x < 0 THEN -x ELSE x

EntriesOfAccount(entries, id) == { e \in entries : e.account_id = id }

\* verify_balance_integrity(p_account_id); the tolerance 0.00000001 is below
\* one whole credit, so on whole credits "within tolerance" is "equal".
verify_balance_integrity(bal, entries, id) ==
  LET cached == bal[id].balance
      ledger == 0 - SumAmounts(EntriesOfAccount(entries, id))
  IN [cached_balance |-> cached, ledger_balance |-> ledger,
      is_consistent |-> Abs(cached - ledger) < 1]

verifyLedgerIntegrity(bal, entries, accountId) ==
  LET row == verify_balance_integrity(bal, entries, accountId)
  IN [accountId |-> accountId,
      cachedBalance |-> parseFloat(row.cached_balance),
      ledgerBalance |-> parseFloat(row.ledger_balance),
      isConsistent  |-> row.is_consistent,
      discrepancy   |-> Abs(parseFloat(row.cached_balance) - parseFloat(row.ledger_balance))]

\* --------------------------------------------------------------- the store
\* ApplyUpdates with the second UPDATE of a posting left out.
ApplyUpdates_firstOnly(bal, updates) ==
  IF updates = <<>> THEN bal
  ELSE LET u == Head(updates)
       IN [bal EXCEPT ![u.account_id] =
             [balance |-> u.balance, version |-> @.version + 1]]

\* ApplyUpdates whose UPDATE sets the balance and leaves the version.
ApplyUpdates_noVersion(bal, updates) ==
  [id \in DOMAIN bal |->
     IF \E i \in 1..Len(updates) : updates[i].account_id = id
     THEN [balance |-> updates[CHOOSE i \in 1..Len(updates) :
                                 /\ updates[i].account_id = id
                                 /\ \A j \in 1..Len(updates) :
                                      updates[j].account_id = id => j <= i].balance,
           version |-> bal[id].version]
     ELSE bal[id]]

RECURSIVE ApplyUpdates(_, _)
\* UPDATE account_balances SET balance = $2, version = version + 1
\*  WHERE account_id = $1, once per element, in order
ApplyUpdates(bal, updates) ==
  IF updates = <<>> THEN bal
  ELSE LET u == Head(updates)
       IN ApplyUpdates([bal EXCEPT ![u.account_id] =
                          [balance |-> u.balance, version |-> @.version + 1]],
                       Tail(updates))

\* Row locks held by the sessions other than s.
HeldByOthers(s) == UNION { sess[t].held : t \in Sessions \ {s} }

\* A row read that does not notice a concurrent committed update.
ChangedSinceSnapshot_never(snap, id) == FALSE

\* FOR UPDATE in a snapshot transaction: the row version the snapshot shows
\* is no longer the committed one.
ChangedSinceSnapshot(snap, id) == account_balances[id].version # snap[id].version

\* Uncommitted transaction rows of the sessions other than s.
PendingTxRows(s) == UNION { sess[t].writes.transactions : t \in Sessions \ {s} }

\* const client = await pool.connect(): one more pooled client held
connect(conn) == conn + 1

\* A finally block that is skipped when the attempt is retried.
release_notOnRetry(conn, retrying) == IF retrying THEN conn ELSE conn - 1

\* finally { client.release() }: runs on return, on throw and on continue
release(conn, retrying) == conn - 1

Respond(s, status, code, body) ==
  responses' = responses \cup
    { [seq |-> Cardinality(responses) + 1, req |-> sess[s].req,
       attempt |-> sess[s].attempt,
       status |-> status, code |-> code, body |-> body] }

\* ------------------------------------------------------------------ actions
Init ==
  /\ account_balances = [id \in AccountIds |-> [balance |-> SeedBalance(id), version |-> 0]]
  /\ transactions = SeedTransactions
  /\ ledger_entries = SeedLedgerEntries
  /\ idempotency_keys = {}
  /\ sess = [s \in Sessions |-> IdleSession]
  /\ responses = {}
  /\ nreq = 0
  /\ nexp = 0
  /\ nextTxId = FirstTxId

\* A validated request reaches a flow, which enters withTransaction.  Idle
\* workers are interchangeable: the request goes to the first of them.
Request(s, r) ==
  /\ sess[s].pc = "idle"
  /\ \A t \in Sessions : t < s => sess[t].pc # "idle"
  /\ nreq < MaxRequests
  /\ nreq' = nreq + 1
  /\ sess' = [sess EXCEPT ![s] = [IdleSession EXCEPT !.pc = "begin", !.req = r]]
  /\ UNCHANGED <<store, responses, nexp, nextTxId>>

\* pool.connect(), BEGIN, and the reads made before any lock: the idempotency
\* lookup (whose query fixes the snapshot) and the counterparty lookup.
Begin(s) ==
  LET me     == sess[s]
      cached == checkIdempotency(idempotency_keys, me.req.referenceId)
      sys    == getAccountByExternalId(account_balances, CounterpartyOf(me.req.flow))
  IN /\ me.pc = "begin"
     /\ sess' = [sess EXCEPT ![s] =
          IF cached # {}
          THEN [me EXCEPT !.pc = "commit", !.snap = account_balances,
                          !.conn = connect(@),
                          !.result = Replay(CHOOSE k \in cached : TRUE)]
          ELSE IF sys = NoRow
          THEN [me EXCEPT !.pc = "rollback", !.snap = account_balances,
                          !.conn = connect(@),
                          !.err = ConfigError(me.req.flow)]
          ELSE [me EXCEPT !.pc = "lock", !.snap = account_balances, !.sys = sys.id,
                          !.conn = connect(@),
                          !.toLock = LockOrder({me.req.accountId, sys.id})]]
     /\ UNCHANGED <<store, responses, nreq, nexp, nextTxId>>

\* getAccountsWithLock, one row lock at a time in ascending id order.
Lock(s) ==
  LET me == sess[s]
      id == Head(me.toLock)
  IN /\ me.pc = "lock"
     /\ me.toLock # <<>>
     /\ id \notin HeldByOthers(s)
     /\ sess' = [sess EXCEPT ![s] =
          IF ChangedSinceSnapshot(me.snap, id)
          THEN [me EXCEPT !.pc = "rollback", !.err = MakeErr("40001", 0)]
          ELSE [me EXCEPT !.held = @ \cup {id}, !.toLock = Tail(@),
                          !.pc = IF Tail(me.toLock) = <<>> THEN "body" ELSE "lock"]]
     /\ UNCHANGED <<store, responses, nreq, nexp, nextTxId>>

\* The rest of the flow body, run with every lock held; its writes stay
\* private to the session.
BodyEnabled(s) ==
  LET me    == sess[s]
      alone == FlowBody(me.req, me.snap, nextTxId, {}, idempotency_keys)
  IN /\ me.pc = "body"
     \* the INSERT waits for an uncommitted row with the same reference
     /\ ~ (alone.err = NoErr /\ UniqueViolation(PendingTxRows(s), me.req.referenceId))

Body(s) ==
  LET me    == sess[s]
      out   == FlowBody(me.req, me.snap, nextTxId, transactions, idempotency_keys)
  IN /\ BodyEnabled(s)
     /\ IF out.err # NoErr
        THEN /\ sess' = [sess EXCEPT ![s] =
                  [me EXCEPT !.pc = "rollback", !.err = out.err, !.writes = out.writes]]
             /\ UNCHANGED nextTxId
        ELSE /\ sess' = [sess EXCEPT ![s] =
                  [me EXCEPT !.pc = "commit", !.writes = out.writes, !.result = out.result]]
             /\ nextTxId' = nextTxId + 1
     /\ UNCHANGED <<store, responses, nreq, nexp>>

\* COMMIT, client.release(), return result; the controller answers.
Commit(s) ==
  LET me == sess[s]
  IN /\ me.pc = "commit"
     /\ account_balances' = ApplyUpdates(account_balances, me.writes.updates)
     /\ transactions' = transactions \cup me.writes.transactions
     /\ ledger_entries' = ledger_entries \cup me.writes.ledger_entries
     /\ idempotency_keys' = idempotency_keys \cup me.writes.idempotency_keys
     /\ Respond(s, SuccessStatus(me.result), "", me.result)
     /\ sess' = [sess EXCEPT ![s] = [IdleSession EXCEPT !.conn = release(me.conn, FALSE)]]
     /\ UNCHANGED <<nreq, nexp, nextTxId>>

\* withTransaction that treats no error as transient.
isRetryable_never(err) == FALSE

\* withTransaction that retries whatever the body throws.
isRetryable_always(err) == TRUE

isRetryable(err) == err.code = "40001" \/ err.code = "40P01"

\* A retry loop without its bound on the attempts.
retryAllowed_unbounded(err, attempt) == isRetryable(err)

\* if (isRetryable && attempt < maxRetries - 1) { attempt++; ...; continue; }
retryAllowed(err, attempt) == isRetryable(err) /\ attempt < maxRetries - 1

\* ROLLBACK, client.release(), then retry or throw to the error handler.
Rollback(s) ==
  LET me == sess[s]
  IN /\ me.pc = "rollback"
     /\ IF retryAllowed(me.err, me.attempt)
        THEN /\ sess' = [sess EXCEPT ![s] =
                  [IdleSession EXCEPT !.pc = "begin", !.req = me.req,
                                      !.attempt = me.attempt + 1,
                                      !.conn = release(me.conn, TRUE)]]
             /\ UNCHANGED responses
        ELSE /\ Respond(s, errorHandler(me.err).status, errorHandler(me.err).code, NoBody)
             /\ sess' = [sess EXCEPT ![s] =
                  [IdleSession EXCEPT !.conn = release(me.conn, FALSE)]]
     /\ UNCHANGED <<store, nreq, nexp, nextTxId>>

\* Time passes an idempotency record's expires_at.
Expire(k) ==
  /\ k \in idempotency_keys
  /\ k.live
  /\ nexp < MaxExpiries
  /\ nexp' = nexp + 1
  /\ idempotency_keys' = (idempotency_keys \ {k}) \cup {[k EXCEPT !.live = FALSE]}
  /\ UNCHANGED <<account_balances, transactions, ledger_entries, sess, responses, nreq, nextTxId>>

Next ==
  \/ \E s \in Sessions, r \in Requests : Request(s, r)
  \/ \E s \in Sessions : Begin(s)
  \/ \E s \in Sessions : Lock(s)
  \/ \E s \in Sessions : Body(s)
  \/ \E s \in Sessions : Commit(s)
  \/ \E s \in Sessions : Rollback(s)
  \/ \E k \in idempotency_keys : Expire(k)

Spec == Init /\ [][Next]_vars

\* ------------------------------------------------- the contention scenario
\* Calls that all touch Alice's balance row, each with a reference of its
\* own, so that every commit of one aborts the attempts of the others that
\* are in flight.
HotRequests(n) ==
  [flow : Flows, accountId : {ALICE}, amount : {200},
   referenceId : {"h" \o ToString(n)}]

RequestHot(s, r) ==
  /\ sess[s].pc = "idle"
  /\ \A t \in Sessions : t < s => sess[t].pc # "idle"
  /\ nreq < MaxHotRequests
  /\ r \in HotRequests(nreq + 1)
  /\ nreq' = nreq + 1
  /\ sess' = [sess EXCEPT ![s] = [IdleSession EXCEPT !.pc = "begin", !.req = r]]
  /\ UNCHANGED <<store, responses, nexp, nextTxId>>

NextHot ==
  \/ \E s \in Sessions : \E r \in HotRequests(nreq + 1) : RequestHot(s, r)
  \/ \E s \in Sessions : Begin(s)
  \/ \E s \in Sessions : Lock(s)
  \/ \E s \in Sessions : Body(s)
  \/ \E s \in Sessions : Commit(s)
  \/ \E s \in Sessions : Rollback(s)

SpecHot == Init /\ [][NextHot]_vars

\* ------------------------------------------- the misconfigured deployment
\* The seeded store with one of the system accounts the flows resolve by
\* external id left out: no row of it in accounts JOIN account_balances.
ResolvedAccounts == {TREASURY_GOLD, REVENUE_GOLD, BONUS_GOLD}

InitConfig ==
  /\ \E missing \in ResolvedAccounts :
       account_balances =
         [id \in AccountIds \ {missing} |-> [balance |-> SeedBalance(id), version |-> 0]]
  /\ transactions = SeedTransactions
  /\ ledger_entries = SeedLedgerEntries
  /\ idempotency_keys = {}
  /\ sess = [s \in Sessions |-> IdleSession]
  /\ responses = {}
  /\ nreq = 0
  /\ nexp = 0
  /\ nextTxId = FirstTxId

SpecConfig == InitConfig /\ [][Next]_vars

\* ------------------------------------------------- getTransactionHistory
\* transactions.created_at DEFAULT NOW().  The seeded rows predate every
\* flow; two postings that share an account are serialised by its row lock,
\* so among the rows of one account's journal created_at grows with the id
\* the model numbers transaction rows by.
created_at(t) == IF t \in SeedTransactions THEN 0 ELSE t.id

\* FROM ledger_entries le JOIN transactions t ON t.id = le.transaction_id
\*  WHERE le.account_id = $1 [AND t.type = $4]
HistoryMatches(entries, txRows, accountId, type) ==
  { j \in [le : entries, t : txRows] :
      /\ j.t.id = j.le.transaction_id
      /\ j.le.account_id = accountId
      /\ type = "" \/ j.t.type = type }

\* ORDER BY t.created_at DESC: every order of the rows that is descending in
\* created_at (rows with equal created_at come in any order).
HistoryOrders(M) ==
  { q \in [1..Cardinality(M) -> M] :
      /\ \A i, j \in 1..Cardinality(M) : i # j => q[i] # q[j]
      /\ \A i, j \in 1..Cardinality(M) :
           i < j => created_at(q[i].t) >= created_at(q[j].t) }

\* LIMIT applied after an OFFSET of zero: the pagination arguments ignored.
HistoryPage_noOffset(sorted, limit, offset) ==
  SubSeq(sorted, 1, IF limit < Len(sorted) THEN limit ELSE Len(sorted))

\* LIMIT $2 OFFSET $3
HistoryPage(sorted, limit, offset) ==
  SubSeq(sorted, offset + 1,
         IF offset + limit < Len(sorted) THEN offset + limit ELSE Len(sorted))

\* rows.map((r) => ({ ..., amount: -parseFloat(r.amount),
\*                    balanceAfter: parseFloat(r.balance_after), ... }))
HistoryEntry(j) ==
  [transactionId |-> j.t.id, type |-> j.t.type, referenceId |-> j.t.reference_id,
   amount |-> 0 - parseFloat(j.le.amount),
   balanceAfter |-> parseFloat(j.le.balance_after)]

\* SELECT COUNT(*)::int AS total ... WHERE le.account_id = $1 [AND t.type = $2]
HistoryTotal(entries, txRows, accountId, type) ==
  Cardinality(HistoryMatches(entries, txRows, accountId, type))

\* ------------------------------------------------------ the query scenario
\* Postings on Alice's account, each with a reference of its own, and
\* history calls that run while they commit.
MaxQueryRequests == 3

QueryPostings(n) ==
  [flow : {"BONUS", "SPEND"}, accountId : {ALICE}, amount : {200},
   referenceId : {"q" \o ToString(n)}]

HistoryQueries ==
  [accountId : {ALICE, NO_ACCOUNT}, limit : {1, 2}, offset : {0, 1},
   type : {"", "BONUS", "SPEND"}, entries : {<<>>}, total : {0}]

RequestPosting(s, r) ==
  /\ sess[s].pc = "idle"
  /\ \A t \in Sessions : t < s => sess[t].pc # "idle"
  /\ nreq < MaxQueryRequests
  /\ r \in QueryPostings(nreq + 1)
  /\ nreq' = nreq + 1
  /\ sess' = [sess EXCEPT ![s] = [IdleSession EXCEPT !.pc = "begin", !.req = r]]
  /\ UNCHANGED <<store, responses, nexp, nextTxId>>

\* validateQuery passes the arguments on and the controller calls
\* getTransactionHistory.
HistoryRequest(s, q) ==
  /\ sess[s].pc = "idle"
  /\ \A t \in Sessions : t < s => sess[t].pc # "idle"
  /\ nreq < MaxQueryRequests
  /\ nreq' = nreq + 1
  /\ sess' = [sess EXCEPT ![s] = [IdleSession EXCEPT !.pc = "history", !.query = q]]
  /\ UNCHANGED <<store, responses, nexp, nextTxId>>

\* pool.query('SELECT id FROM accounts WHERE id = $1 AND is_active = TRUE')
HistoryCheck(s) ==
  LET me == sess[s]
      id == me.query.accountId
  IN /\ me.pc = "history"
     /\ sess' = [sess EXCEPT ![s] =
          IF id \in AccountIds /\ accounts[id].is_active
          THEN [me EXCEPT !.pc = "entries"]
          ELSE [me EXCEPT !.pc = "answer", !.err = MakeErr("ACCOUNT_NOT_FOUND", 404)]]
     /\ UNCHANGED <<store, responses, nreq, nexp, nextTxId>>

\* The page query, a statement of its own on the pool: it reads the store as
\* committed when it runs.
HistoryRows(s) ==
  LET me == sess[s]
      q  == me.query
      M  == HistoryMatches(ledger_entries, transactions, q.accountId, q.type)
  IN /\ me.pc = "entries"
     /\ \E sorted \in HistoryOrders(M) :
          LET page == HistoryPage(sorted, q.limit, q.offset)
          IN sess' = [sess EXCEPT ![s] =
               [me EXCEPT !.pc = "count",
                          !.query.entries = [i \in 1..Len(page) |-> HistoryEntry(page[i])]]]
     /\ UNCHANGED <<store, responses, nreq, nexp, nextTxId>>

\* The count query, another statement on the pool.
HistoryCount(s) ==
  LET me == sess[s]
      q  == me.query
  IN /\ me.pc = "count"
     /\ sess' = [sess EXCEPT ![s] =
          [me EXCEPT !.pc = "answer",
                     !.query.total = HistoryTotal(ledger_entries, transactions,
                                                  q.accountId, q.type)]]
     /\ UNCHANGED <<store, responses, nreq, nexp, nextTxId>>

\* return { accountId, total, limit, offset, entries }; the controller answers.
HistoryReturn(s) ==
  /\ sess[s].pc = "answer"
  /\ sess' = [sess EXCEPT ![s] = IdleSession]
  /\ UNCHANGED <<store, responses, nreq, nexp, nextTxId>>

NextQuery ==
  \/ \E s \in Sessions : \E r \in QueryPostings(nreq + 1) : RequestPosting(s, r)
  \/ \E s \in Sessions, q \in HistoryQueries : HistoryRequest(s, q)
  \/ \E s \in Sessions : HistoryCheck(s)
  \/ \E s \in Sessions : HistoryRows(s)
  \/ \E s \in Sessions : HistoryCount(s)
  \/ \E s \in Sessions : HistoryReturn(s)
  \/ \E s \in Sessions : Begin(s)
  \/ \E s \in Sessions : Lock(s)
  \/ \E s \in Sessions : Body(s)
  \/ \E s \in Sessions : Commit(s)
  \/ \E s \in Sessions : Rollback(s)

SpecQuery == Init /\ [][NextQuery]_vars

\* ------------------------------------------------------- request validation
\* Joi.number().positive().precision(8).max(10_000_000).required()
amountSchema_nonNegative(amount) == amount >= 0 /\ amount <= 10000000

amountSchema(amount) == amount > 0 /\ amount <= 10000000

\* Joi.string().max(255).required(); a body without referenceId is modelled
\* as the body whose referenceId is "", which Joi refuses as well.
referenceIdSchema(referenceId) == referenceId # ""

\* schema.validate(req.body, ...): TRUE when there is no error
validateBody(body) ==
  amountSchema(body.amount) /\ referenceIdSchema(body.referenceId)

\* --------------------------------------------------- the boundary scenario
\* Request bodies as they arrive at the router, valid or not, all on Bob's
\* account (seeded with 200): amounts at and one credit above his balance,
\* a zero and a negative amount, a body without referenceId, a reference
\* that repeats, and the reference of Bob's seeded transaction.
MaxEdgeRequests == 3

EdgeBodies ==
  [flow : {"TOP_UP", "SPEND"}, accountId : {BOB}, amount : {-1, 0, 200, 201},
   referenceId : {"", "e1", "SEED_OPENING_BOB_GOLD"}]

\* validateBody passes the body on and the controller calls the flow.
RequestEdge(s, r) ==
  /\ sess[s].pc = "idle"
  /\ \A t \in Sessions : t < s => sess[t].pc # "idle"
  /\ nreq < MaxEdgeRequests
  /\ validateBody(r)
  /\ nreq' = nreq + 1
  /\ sess' = [sess EXCEPT ![s] = [IdleSession EXCEPT !.pc = "begin", !.req = r]]
  /\ UNCHANGED <<store, responses, nexp, nextTxId>>

\* validateBody answers 400 itself; next() is not called.
Reject(r) ==
  /\ nreq < MaxEdgeRequests
  /\ ~ validateBody(r)
  /\ nreq' = nreq + 1
  /\ responses' = responses \cup
       { [seq |-> Cardinality(responses) + 1, req |-> r, attempt |-> 0,
          status |-> 400, code |-> "VALIDATION_ERROR", body |-> NoBody] }
  /\ UNCHANGED <<store, sess, nexp, nextTxId>>

NextEdge ==
  \/ \E s \in Sessions, r \in EdgeBodies : RequestEdge(s, r)
  \/ \E r \in EdgeBodies : Reject(r)
  \/ \E s \in Sessions : Begin(s)
  \/ \E s \in Sessions : Lock(s)
  \/ \E s \in Sessions : Body(s)
  \/ \E s \in Sessions : Commit(s)
  \/ \E s \in Sessions : Rollback(s)
  \/ \E k \in idempotency_keys : Expire(k)

SpecEdge == Init /\ [][NextEdge]_vars

\* ------------------------------------------------ the posting engine alone
\* postDoubleEntry called directly, once from A to B and then from B to A
\* with the same amount, on the rows as the store holds them.  Alice's and
\* Bob's balances are drawn from PostBalances; the system accounts start at 0.
PostAccounts == {TREASURY_GOLD, ALICE, BOB}
PostBalances == {0, 200, 500}
PostAmounts  == {200, 300}

InitPost ==
  /\ \E bal \in [{ALICE, BOB} -> PostBalances] :
       account_balances =
         [id \in AccountIds |->
            [balance |-> IF id \in {ALICE, BOB} THEN bal[id] ELSE SeedBalance(id),
             version |-> 0]]
  /\ transactions = SeedTransactions
  /\ ledger_entries = SeedLedgerEntries
  /\ idempotency_keys = {}
  /\ sess = [s \in Sessions |-> IdleSession]
  /\ responses = {}
  /\ nreq = 0
  /\ nexp = 0
  /\ nextTxId = FirstTxId

\* postDoubleEntry(client, txId, A, B, m, asset); the session keeps the
\* arguments and the balances before the call.
PostForward(s, A, B, m) ==
  LET p == postDoubleEntry(nextTxId, AccountRow(account_balances, A),
                           AccountRow(account_balances, B), m, accounts[A].asset_type_id)
  IN /\ s = 1
     /\ sess[s].pc = "idle"
     /\ nreq = 0
     /\ A # B
     /\ nreq' = nreq + 1
     /\ IF p.err # NoErr
        THEN /\ sess' = [sess EXCEPT ![s] = [IdleSession EXCEPT !.pc = "thrown", !.err = p.err]]
             /\ UNCHANGED <<account_balances, ledger_entries, nextTxId>>
        ELSE /\ sess' = [sess EXCEPT ![s] =
                  [IdleSession EXCEPT !.pc = "posted", !.snap = account_balances, !.sys = B,
                     !.req = [flow |-> "POST", accountId |-> A, amount |-> m, referenceId |-> ""]]]
             /\ account_balances' = ApplyUpdates(account_balances, p.updates)
             /\ ledger_entries' = ledger_entries \cup p.ledger_entries
             /\ nextTxId' = nextTxId + 1
     /\ UNCHANGED <<transactions, idempotency_keys, responses, nexp>>

\* postDoubleEntry(client, txId, B, A, m, asset) on the balances the first
\* call left.
PostBackward(s) ==
  LET me == sess[s]
      A  == me.req.accountId
      B  == me.sys
      p  == postDoubleEntry(nextTxId, AccountRow(account_balances, B),
                            AccountRow(account_balances, A), me.req.amount,
                            accounts[A].asset_type_id)
  IN /\ me.pc = "posted"
     /\ IF p.err # NoErr
        THEN /\ sess' = [sess EXCEPT ![s] = [me EXCEPT !.pc = "thrown", !.err = p.err]]
             /\ UNCHANGED <<account_balances, ledger_entries, nextTxId>>
        ELSE /\ sess' = [sess EXCEPT ![s] = [me EXCEPT !.pc = "reversed"]]
             /\ account_balances' = ApplyUpdates(account_balances, p.updates)
             /\ ledger_entries' = ledger_entries \cup p.ledger_entries
             /\ nextTxId' = nextTxId + 1
     /\ UNCHANGED <<transactions, idempotency_keys, responses, nreq, nexp>>

NextPost ==
  \/ \E s \in Sessions, A \in PostAccounts, B \in PostAccounts, m \in PostAmounts :
       PostForward(s, A, B, m)
  \/ \E s \in Sessions : PostBackward(s)

SpecPost == InitPost /\ [][NextPost]_vars

\* ------------------------------------------------ the any-account scenario
\* Calls whose accountId is any active account the validation accepts: a
\* user (Bob, seeded with 200) or the gold treasury, which is also the
\* counterparty topUpWallet resolves.  References repeat.
MaxSelfRequests == 3

SelfBodies ==
  [flow : Flows, accountId : {BOB, TREASURY_GOLD}, amount : {300},
   referenceId : {"s1", "s2"}]

RequestSelf(s, r) ==
  /\ sess[s].pc = "idle"
  /\ \A t \in Sessions : t < s => sess[t].pc # "idle"
  /\ nreq < MaxSelfRequests
  /\ validateBody(r)
  /\ nreq' = nreq + 1
  /\ sess' = [sess EXCEPT ![s] = [IdleSession EXCEPT !.pc = "begin", !.req = r]]
  /\ UNCHANGED <<store, responses, nexp, nextTxId>>

NextSelf ==
  \/ \E s \in Sessions, r \in SelfBodies : RequestSelf(s, r)
  \/ \E s \in Sessions : Begin(s)
  \/ \E s \in Sessions : Lock(s)
  \/ \E s \in Sessions : Body(s)
  \/ \E s \in Sessions : Commit(s)
  \/ \E s \in Sessions : Rollback(s)

SpecSelf == Init /\ [][NextSelf]_vars

\* ----------------------------------------------- the transient-failure scenario
\* Two postings on Alice's account in which any statement after BEGIN, the
\* COMMIT included, may fail with a serialization failure or a detected
\* deadlock, whatever the other session does.
MaxRetryRequests == 2

RetryPostings(n) ==
  [flow : {"BONUS", "SPEND"}, accountId : {ALICE}, amount : {300},
   referenceId : {"t" \o ToString(n)}]

RequestRetry(s, r) ==
  /\ sess[s].pc = "idle"
  /\ \A t \in Sessions : t < s => sess[t].pc # "idle"
  /\ nreq < MaxRetryRequests
  /\ r \in RetryPostings(nreq + 1)
  /\ nreq' = nreq + 1
  /\ sess' = [sess EXCEPT ![s] = [IdleSession EXCEPT !.pc = "begin", !.req = r]]
  /\ UNCHANGED <<store, responses, nexp, nextTxId>>

\* A statement of the body, or the COMMIT, throws 40001 or 40P01: control
\* goes to the catch block with the attempt's writes still uncommitted.
TransientFailure(s, code) ==
  /\ sess[s].pc \in {"lock", "body", "commit"}
  /\ sess' = [sess EXCEPT ![s] =
       [sess[s] EXCEPT !.pc = "rollback", !.err = MakeErr(code, 0), !.result = NoBody]]
  /\ UNCHANGED <<store, responses, nreq, nexp, nextTxId>>

\* The steps withTransaction itself takes for a session: BEGIN and the
\* lookups before the locks, a row lock granted, COMMIT, ROLLBACK.
WrapperStep(s) == Begin(s) \/ Lock(s) \/ Commit(s) \/ Rollback(s)

NextRetry ==
  \/ \E s \in Sessions : \E r \in RetryPostings(nreq + 1) : RequestRetry(s, r)
  \/ \E s \in Sessions, code \in {"40001", "40P01"} : TransientFailure(s, code)
  \/ \E s \in Sessions : Begin(s)
  \/ \E s \in Sessions : Lock(s)
  \/ \E s \in Sessions : Body(s)
  \/ \E s \in Sessions : Commit(s)
  \/ \E s \in Sessions : Rollback(s)

\* Every awaited statement of a call is eventually answered by the store and
\* the continuation run by the event loop: weak fairness of every step of a
\* session. The fairness of Body is written out with its enabling condition,
\* WF_vars(Body(s)) being []<>(~ ENABLED <<Body(s)>>_vars) \/ []<><<Body(s)>>_vars.
SpecRetry ==
  /\ Init
  /\ [][NextRetry]_vars
  /\ \A s \in Sessions : WF_vars(WrapperStep(s))
  /\ \A s \in Sessions : []<>(~ BodyEnabled(s)) \/ []<><<Body(s)>>_vars

\* ================================================================== claims
FlowTransactions == transactions \ SeedTransactions

EntriesOfTransaction(t) == { e \in ledger_entries : e.transaction_id = t.id }

UserIds == { id \in AccountIds : accounts[id].account_type = "USER" }

\* C1: in every committed state, the journal entries of every transaction row
\* a flow created are exactly two, one +m and one -m, and their amounts sum to
\* zero.
C1_DoubleEntryZeroSum ==
  \A t \in FlowTransactions :
    LET es == EntriesOfTransaction(t)
    IN /\ SumAmounts(es) = 0
       /\ Cardinality(es) = 2
       /\ \E d \in es, c \in es : d.amount > 0 /\ c.amount = 0 - d.amount

\* Two flows of different categories have committed their postings.
C1_Witness ==
  \E t1 \in FlowTransactions, t2 \in FlowTransactions :
    /\ t1.type # t2.type
    /\ EntriesOfTransaction(t1) # {}
    /\ EntriesOfTransaction(t2) # {}

\* C2: no USER account has a negative cached balance in any committed state,
\* and no session, committed later or rolled back, holds a write of a
\* negative balance to a USER account.
C2_UserBalanceNonNegative ==
  /\ \A id \in UserIds : account_balances[id].balance >= 0
  /\ \A s \in Sessions : \A i \in 1..Len(sess[s].writes.updates) :
       LET u == sess[s].writes.updates[i]
       IN u.account_id \in UserIds => u.balance >= 0

\* A spend has lowered a USER account's balance and a further spend, which
\* the seeded balance would have covered, was refused.
C2_Witness ==
  \E id \in UserIds :
    /\ account_balances[id].balance < SeedBalance(id)
    /\ \E r \in responses : r.req.flow = "SPEND" /\ r.req.accountId = id /\ r.status = 201
    /\ \E r \in responses : /\ r.req.flow = "SPEND" /\ r.req.accountId = id
                            /\ r.code = "INSUFFICIENT_BALANCE"
                            /\ r.req.amount <= SeedBalance(id)

\* C3: in every committed state every account, USER and SYSTEM alike, has a
\* cached balance equal to the negated sum of its journal entry amounts.
C3_CacheEqualsLedgerAllAccounts ==
  \A id \in AccountIds :
    account_balances[id].balance = 0 - SumAmounts(EntriesOfAccount(ledger_entries, id))

SeededUsers == {ALICE, BOB, CHARLIE}

LiveRecord(ref)    == \E k \in idempotency_keys : k.key = ref /\ k.live
ExpiredRecord(ref) == \E k \in idempotency_keys : k.key = ref /\ ~ k.live

Tagged(body) == [body EXCEPT !.idempotent = TRUE]

\* A response that reports a refusal made before the transaction row is
\* inserted.
BusinessError(r) ==
  r.code \in {"ACCOUNT_NOT_FOUND", "INSUFFICIENT_BALANCE"} \/ r.status = 400

OneRowPerReference ==
  \A t1 \in transactions, t2 \in transactions :
    t1.reference_id = t2.reference_id => t1 = t2

TwoEntriesPerTransaction ==
  \A t \in FlowTransactions : Cardinality(EntriesOfTransaction(t)) = 2

\* C5 as stated: at most one transaction row per reference, and every
\* further call with the reference and body of a committed call adds no
\* journal entry and returns that call's response body.
C5_EveryFurtherCallReplays ==
  /\ OneRowPerReference
  /\ TwoEntriesPerTransaction
  /\ \A r1 \in responses, r2 \in responses :
       (r1.status = 201 /\ r2.req = r1.req /\ r2.seq > r1.seq)
         => (r2.status = 200 /\ r2.body = Tagged(r1.body))

\* C5 as amended: at most one transaction row per reference; a further call
\* with the reference and body of a committed call adds no journal entry, and
\* it returns that call's response body (tagged as a replay) unless the
\* idempotency record has expired, in which case it fails (with
\* DUPLICATE_REFERENCE, or with the refusal the flow raises before its insert).
C5_FurtherCallReplaysOrDuplicate ==
  /\ OneRowPerReference
  /\ TwoEntriesPerTransaction
  /\ \A r1 \in responses, r2 \in responses :
       (r1.status = 201 /\ r2.req = r1.req /\ r2.seq > r1.seq)
         => \/ r2.status = 200 /\ r2.body = Tagged(r1.body)
            \/ /\ r2.status >= 400
               /\ r2.code = "DUPLICATE_REFERENCE" \/ BusinessError(r2)
               /\ ExpiredRecord(r1.req.referenceId)

\* A committed call was followed by a call with the same reference and body.
C5_Witness ==
  \E r1 \in responses, r2 \in responses :
    /\ r1.status = 201 /\ r2.req = r1.req /\ r2.seq > r1.seq
    /\ Cardinality(EntriesOfTransaction(
         CHOOSE t \in transactions : t.reference_id = r1.req.referenceId)) = 2

\* C6: the response to a call whose reference and body are those of a call
\* answered 201, sent while the idempotency record is live, has status 200 and
\* is the 201 response's body with idempotent = true and nothing else changed.
C6_ReplayIsFreshBodyPlusFlag ==
  [][ \A r \in responses' \ responses : \A r1 \in responses :
        (r1.status = 201 /\ r1.req = r.req /\ LiveRecord(r.req.referenceId))
          => /\ r.status = 200
             /\ ~ r1.body.idempotent
             /\ r.body = Tagged(r1.body)
             /\ r.body # r1.body ]_vars

\* A replay was answered 200 after the fresh execution was answered 201.
C6_Witness ==
  \E r1 \in responses, r2 \in responses :
    /\ r1.status = 201 /\ r2.status = 200 /\ r2.req = r1.req
    /\ r2.body.balanceAfter = r1.body.balanceAfter
    /\ LiveRecord(r1.req.referenceId)

\* C7: from the lookup that finds a live idempotency record to the end of the
\* call, no step of the session changes a balance, a version, the journal,
\* the transaction rows or the idempotency records, and the session holds and
\* requests no row lock.
C7_ReplayChangesNothing ==
  [][ \A s \in Sessions :
        LET hit    == sess[s].pc = "begin" /\ LiveRecord(sess[s].req.referenceId)
            replay == sess[s].pc = "commit" /\ sess[s].result.idempotent
        IN ((hit \/ replay) /\ sess'[s] # sess[s])
             => /\ UNCHANGED store
                /\ sess'[s].held = {}
                /\ sess'[s].toLock = <<>>
                /\ sess'[s].writes = NoWrites
                /\ sess'[s].pc = IF hit THEN "commit" ELSE "idle" ]_vars

\* A session has found the live record of a committed spend and is about to
\* return it.
C7_Witness ==
  \E s \in Sessions :
    /\ sess[s].pc = "commit" /\ sess[s].result.idempotent
    /\ sess[s].result.type = "SPEND"
    /\ LiveRecord(sess[s].req.referenceId)

\* Two requests lock a common account row.
SharesRow(q1, q2) == q1.flow = q2.flow \/ q1.accountId = q2.accountId

\* C8 as stated: of two calls with one reference, neither refused on business
\* grounds, one commits one posting and the other is answered with a replay
\* of it, not with an error (the record still being live).
C8_SameReferenceOneReplay ==
  \A r1 \in responses, r2 \in responses :
    (/\ r1.status = 201 /\ r2 # r1
     /\ r2.req.referenceId = r1.req.referenceId
     /\ LiveRecord(r1.req.referenceId)
     /\ ~ BusinessError(r2))
      => /\ r2.status = 200 /\ r2.body = Tagged(r1.body)
         /\ Cardinality({ t \in transactions :
                            t.reference_id = r1.req.referenceId }) = 1

\* C8 as amended: the same, for two calls that lock a common account row
\* (the same flow, or the same target account).
C8_SameReferenceSharedRowOneReplay ==
  \A r1 \in responses, r2 \in responses :
    (/\ r1.status = 201 /\ r2 # r1
     /\ r2.req.referenceId = r1.req.referenceId
     /\ SharesRow(r1.req, r2.req)
     /\ LiveRecord(r1.req.referenceId)
     /\ ~ BusinessError(r2))
      => /\ r2.status = 200 /\ r2.body = Tagged(r1.body)
         /\ Cardinality({ t \in transactions :
                            t.reference_id = r1.req.referenceId }) = 1
         /\ Cardinality({ e \in ledger_entries :
                            e.transaction_id = r1.body.transactionId }) = 2

\* The replayed call had passed the lookup before the other committed: its
\* first attempt was aborted by the other's commit and it was run again.
C8_Witness ==
  \E r1 \in responses, r2 \in responses :
    /\ r1.status = 201 /\ r2.status = 200
    /\ r2.req.referenceId = r1.req.referenceId
    /\ SharesRow(r1.req, r2.req)
    /\ r2.attempt >= 1

\* The calls answered so far are exactly two calls of one flow on one
\* account, with different references.
TwoCallsOnly(flow, id) ==
  /\ nreq = 2
  /\ Cardinality(responses) = 2
  /\ \A r \in responses : r.req.flow = flow /\ r.req.accountId = id
  /\ \A r1 \in responses, r2 \in responses :
       r1 # r2 => r1.req.referenceId # r2.req.referenceId

SumOfRequests(rs) == SumAmounts({ [seq |-> r.seq, amount |-> r.req.amount] : r \in rs })

\* C9: two top-ups of one active USER account with different references both
\* commit, and the account's cached balance is its initial balance plus both
\* amounts, the treasury's its initial balance minus both.
C9_TwoTopUpsBothCommit ==
  \A id \in UserIds :
    TwoCallsOnly("TOP_UP", id)
      => /\ \A r \in responses : r.status = 201
         /\ account_balances[id].balance = SeedBalance(id) + SumOfRequests(responses)
         /\ account_balances[TREASURY_GOLD].balance
              = SeedBalance(TREASURY_GOLD) - SumOfRequests(responses)

\* C10: of two spends with distinct references from one USER account whose
\* balance covers either amount but not both, exactly one commits, the other
\* is refused with INSUFFICIENT_BALANCE, and the balance left is the initial
\* one minus the committed amount, never negative.
C10_TwoSpendsOneCommits ==
  \A id \in UserIds :
    (/\ TwoCallsOnly("SPEND", id)
     /\ \A r \in responses : r.req.amount <= SeedBalance(id)
     /\ SumOfRequests(responses) > SeedBalance(id))
      => \E r1 \in responses, r2 \in responses :
           /\ r1.status = 201
           /\ r2.status = 422 /\ r2.code = "INSUFFICIENT_BALANCE"
           /\ account_balances[id].balance = SeedBalance(id) - r1.req.amount
           /\ account_balances[id].balance >= 0
           /\ r1.body.balanceAfter = account_balances[id].balance

\* The refused spend ran concurrently with the committed one: its first
\* attempt was aborted by the other's commit.
C10_Witness ==
  \E id \in UserIds :
    /\ TwoCallsOnly("SPEND", id)
    /\ SumOfRequests(responses) > SeedBalance(id)
    /\ \E r1 \in responses, r2 \in responses :
         /\ r1.status = 201
         /\ r2.code = "INSUFFICIENT_BALANCE" /\ r2.attempt >= 1
         /\ r2.req.amount <= SeedBalance(id)

\* ------------------------------------------------------------------- C11
\* Session s waits for a row lock that session t holds.
WaitsOnLock(s, t) ==
  /\ sess[s].pc = "lock"
  /\ sess[s].toLock # <<>>
  /\ Head(sess[s].toLock) \in sess[t].held

\* Session s waits, in its INSERT INTO transactions, for the uncommitted row
\* with the same reference that session t has inserted.
WaitsOnInsert(s, t) ==
  /\ sess[s].pc = "body"
  /\ FlowBody(sess[s].req, sess[s].snap, nextTxId, {}, idempotency_keys).err = NoErr
  /\ UniqueViolation(sess[t].writes.transactions, sess[s].req.referenceId)

WaitsFor(s, t) == s # t /\ (WaitsOnLock(s, t) \/ WaitsOnInsert(s, t))

\* A set of sessions each of which waits for a member of the set.
WaitCycle(C) == C # {} /\ \A s \in C : \E t \in C : WaitsFor(s, t)

\* C11: the waits-for graph between sessions never contains a cycle; every
\* session takes its row locks in ascending account-id order, and a session
\* that has inserted its transaction row has all its row locks and waits for
\* nothing.
C11_NoDeadlock ==
  /\ \A C \in SUBSET Sessions : ~ WaitCycle(C)
  /\ \A s \in Sessions :
       /\ \A h \in sess[s].held : \A i \in 1..Len(sess[s].toLock) : h < sess[s].toLock[i]
       /\ \A i \in 1..Len(sess[s].toLock) : \A j \in 1..Len(sess[s].toLock) :
            i < j => sess[s].toLock[i] < sess[s].toLock[j]
       /\ sess[s].writes.transactions # {}
            => sess[s].toLock = <<>> /\ \A t \in Sessions : ~ WaitsFor(s, t)

\* A session that holds a row lock waits for a row held by another session
\* that holds two.
C11_Witness ==
  \E s \in Sessions, t \in Sessions :
    /\ WaitsOnLock(s, t) /\ s # t
    /\ sess[s].held # {}
    /\ Cardinality(sess[t].held) = 2

\* ------------------------------------------------------------- C12, C13
\* The answers withTransaction can end a call with, other than a failure it
\* treats as transient: a fresh result, a replay, a refusal of the flow.
Settled(r) ==
  \/ r.status = 201 /\ ~ r.body.idempotent
  \/ r.status = 200 /\ r.body.idempotent
  \/ r.status \in {400, 404, 409, 422}

C13_ThreeReexecutions ==
  \A r \in responses : ~ Settled(r) => r.attempt = 3

\* ------------------------------------------------------------------- C14
NonTransient(err) == err # NoErr /\ err.code \notin {"40001", "40P01"}

\* C14: when the body has thrown an error other than 40001/40P01, the step
\* that follows rolls the session back (its writes are dropped, the store is
\* unchanged), does not run the body again, and answers the caller with that
\* same error as errorHandler renders it.
C14_NonRetryableErrorPropagates ==
  [][ \A s \in Sessions :
        (sess[s].pc = "rollback" /\ NonTransient(sess[s].err) /\ sess'[s] # sess[s])
          => /\ UNCHANGED store
             /\ sess'[s].pc = "idle"
             /\ sess'[s].writes = NoWrites
             /\ \E r \in responses' \ responses :
                  /\ r.req = sess[s].req
                  /\ r.attempt = sess[s].attempt
                  /\ r.status = errorHandler(sess[s].err).status
                  /\ r.code = errorHandler(sess[s].err).code ]_vars

\* A unique violation has been propagated by the first execution of its
\* call, and the store holds what the other call committed.
C14_Witness ==
  \E r \in responses :
    /\ r.code = "DUPLICATE_REFERENCE" /\ r.attempt = 0
    /\ Cardinality({ t \in transactions : t.reference_id = r.req.referenceId }) = 1

\* ------------------------------------------------------------------- C15
Attempting(s) == sess[s].pc \in {"lock", "body", "commit", "rollback"}

\* C15: a call holds one pooled connection while an attempt runs and none
\* before, between and after attempts; an attempt ends only by the COMMIT
\* step or the ROLLBACK step, and that step releases the connection - on
\* return, on a propagated error and on a retried error alike.
C15_OneConnectionReleasedOnce ==
  /\ [] (\A s \in Sessions : sess[s].conn = IF Attempting(s) THEN 1 ELSE 0)
  /\ [][ \A s \in Sessions :
          (Attempting(s) /\ sess'[s].pc \in {"idle", "begin"})
            => /\ sess[s].pc \in {"commit", "rollback"}
               /\ sess[s].conn = 1 /\ sess'[s].conn = 0
               /\ sess'[s].held = {} /\ sess'[s].writes = NoWrites ]_vars

\* One call has returned and another, its attempt rolled back on a transient
\* error, is about to be run again.
C15_Witness ==
  /\ \E r \in responses : r.status = 201
  /\ \E s \in Sessions : sess[s].pc = "begin" /\ sess[s].attempt >= 1 /\ sess[s].conn = 0

\* ------------------------------------------------------------------- C16
Refusal(err) == err.code \in {"ACCOUNT_NOT_FOUND", "INSUFFICIENT_BALANCE"}

\* The five parts of the committed store as the seed left them.
SeedStore ==
  /\ transactions = SeedTransactions
  /\ ledger_entries = SeedLedgerEntries
  /\ idempotency_keys = {}
  /\ \A id \in AccountIds :
       account_balances[id] = [balance |-> SeedBalance(id), version |-> 0]

\* C16: the step that answers a call with ACCOUNT_NOT_FOUND or
\* INSUFFICIENT_BALANCE changes no transaction row, journal entry,
\* idempotency record, balance or version, and the call has written nothing
\* that a commit could have kept (the refusal precedes every insert); as long
\* as no call has been answered with a result the store is the seeded one.
C16_RefusalLeavesStoreUnchanged ==
  /\ [] ((\A r \in responses : r.status >= 400) => SeedStore)
  /\ [][ \A s \in Sessions :
          (sess[s].pc = "rollback" /\ Refusal(sess[s].err) /\ sess'[s] # sess[s])
            => /\ UNCHANGED store
               /\ sess[s].writes = NoWrites
               /\ \E r \in responses' \ responses :
                    r.code = sess[s].err.code /\ r.body = NoBody ]_vars

\* A call was refused for an unknown account and another for want of
\* balance, and the store is as seeded.
C16_Witness ==
  /\ \E r \in responses : r.code = "ACCOUNT_NOT_FOUND" /\ r.status = 404
  /\ \E r \in responses : r.code = "INSUFFICIENT_BALANCE" /\ r.status = 422
  /\ SeedStore

\* ------------------------------------------------------------ C17 - C19
\* The system account a flow resolves as its counterparty.
Counterparty(flow) == getAccountByExternalId(account_balances, CounterpartyOf(flow))

\* C17: both journal entries of every posting of a flow carry one asset-type
\* id, which is the asset-type id of the account of each entry.
C17_EntriesCarryAccountsAsset ==
  \A t \in FlowTransactions : \A e1 \in EntriesOfTransaction(t), e2 \in EntriesOfTransaction(t) :
    /\ e1.asset_type_id = e2.asset_type_id
    /\ e1.asset_type_id = accounts[e1.account_id].asset_type_id

\* C18: a call whose target account exists and differs in asset type from
\* the flow's counterparty, answered before any other call, is answered 400
\* with code ASSET_MISMATCH, and nothing is posted.
C18_AssetMismatchRefused ==
  \A r \in responses :
    (/\ r.seq = 1
     /\ r.req.accountId \in AccountIds
     /\ accounts[r.req.accountId].asset_type_id # Counterparty(r.req.flow).asset_type_id)
      => /\ r.status = 400 /\ r.code = "ASSET_MISMATCH"
         /\ \A t \in FlowTransactions : t.reference_id # r.req.referenceId

\* The treasury the seed provides for an asset type.
TreasuryOf(assetTypeId) ==
  CHOOSE id \in {TREASURY_GOLD, TREASURY_DIAMONDS, TREASURY_LOYALTY} :
    accounts[id].asset_type_id = assetTypeId

\* C19: a top-up of an active USER account, answered before any other call,
\* commits, crediting the account and debiting the treasury of the
\* account's asset type.
C19_TopUpFromTreasuryOfAsset ==
  \A r \in responses :
    (r.seq = 1 /\ r.req.flow = "TOP_UP" /\ r.req.accountId \in UserIds)
      => /\ r.status = 201
         /\ \E d \in ledger_entries, c \in ledger_entries :
              /\ d.transaction_id = r.body.transactionId
              /\ c.transaction_id = r.body.transactionId
              /\ d.account_id = TreasuryOf(accounts[r.req.accountId].asset_type_id)
              /\ d.amount = r.req.amount
              /\ c.account_id = r.req.accountId
              /\ c.amount = 0 - r.req.amount

\* ------------------------------------------------------------------- C20
\* C20: no step lowers the version of a balance row; every step that changes
\* a row raises its version; the commit of a posting raises the version of
\* each row it updates; the return of a replay and the rollback of a failed
\* attempt leave every version as it is.
C20_VersionsStrictlyMonotonic ==
  [][ /\ \A id \in AccountIds :
           /\ account_balances'[id].version >= account_balances[id].version
           /\ account_balances'[id] # account_balances[id]
                => account_balances'[id].version > account_balances[id].version
      /\ \A s \in Sessions :
           /\ (sess[s].pc = "commit" /\ sess'[s] # sess[s] /\ ~ sess[s].result.idempotent)
                => \A i \in 1..Len(sess[s].writes.updates) :
                     LET id == sess[s].writes.updates[i].account_id
                     IN account_balances'[id].version > account_balances[id].version
           /\ (sess'[s] # sess[s] /\ (sess[s].pc = "rollback" \/
                                       (sess[s].pc = "commit" /\ sess[s].result.idempotent)))
                => \A id \in AccountIds :
                     account_balances'[id].version = account_balances[id].version ]_vars

\* Two postings on one USER account have been committed.
C20_Witness ==
  \E id \in UserIds : account_balances[id].version = 2

\* ------------------------------------------------------------------- C21
\* The session s runs the body of a spend on a USER account.
SpendBody(s) ==
  /\ sess[s].pc = "body"
  /\ sess[s].req.flow = "SPEND"
  /\ sess[s].req.accountId \in UserIds

\* C21: a spend on a USER account whose committed balance is b, made with a
\* reference no transaction row carries: with amount exactly b its body
\* succeeds and its commit leaves the balance at 0; with any amount above b
\* (one credit above included) its body fails with INSUFFICIENT_BALANCE (422)
\* and that is the answer sent.
C21_SpendAtAndAboveBalance ==
  [][\A s \in Sessions :
       /\ (SpendBody(s) /\ sess'[s] # sess[s]) =>
            LET me == sess[s]
                b  == account_balances[me.req.accountId].balance
            IN /\ (me.req.amount = b /\ ~ UniqueViolation(transactions, me.req.referenceId)) =>
                    /\ sess'[s].pc = "commit"
                    /\ sess'[s].result.balanceAfter = 0
               /\ me.req.amount > b =>
                    /\ sess'[s].pc = "rollback"
                    /\ sess'[s].err = MakeErr("INSUFFICIENT_BALANCE", 422)
                    /\ errorHandler(sess'[s].err) =
                         [status |-> 422, code |-> "INSUFFICIENT_BALANCE"]
       /\ ( /\ sess[s].pc = "commit"
            /\ sess[s].req.flow = "SPEND"
            /\ ~ sess[s].result.idempotent
            /\ sess[s].req.accountId \in UserIds
            /\ sess[s].req.amount = account_balances[sess[s].req.accountId].balance
            /\ sess'[s].pc = "idle" ) =>
            account_balances'[sess[s].req.accountId].balance = 0
  ]_vars

\* Bob, seeded with 200, was refused a spend of 201 while nothing had
\* committed, and then spent 200, which left him 0.
C21_Witness ==
  \E r1 \in responses, r2 \in responses :
    /\ r1.seq = 1 /\ r1.req.flow = "SPEND" /\ r1.req.amount = 201
    /\ r1.status = 422 /\ r1.code = "INSUFFICIENT_BALANCE"
    /\ r2.seq = 2 /\ r2.req.flow = "SPEND" /\ r2.req.amount = 200
    /\ r2.status = 201 /\ r2.body.balanceAfter = 0
    /\ account_balances[BOB].balance = 0

\* ------------------------------------------------------------- C22 .. C24
\* The session s commits a posting (not a replay) of the given flow.
CommitsPosting(s, flow) ==
  /\ sess[s].pc = "commit"
  /\ sess[s].req.flow = flow
  /\ ~ sess[s].result.idempotent
  /\ sess'[s].pc = "idle"

\* C22 as stated: the commit of a spend of m that finds the revenue account
\* at 0 leaves the revenue account's cached balance at -m.
C22_RevenueDebitedBySpend ==
  [][\A s \in Sessions :
       (CommitsPosting(s, "SPEND") /\ account_balances[REVENUE_GOLD].balance = 0)
       => account_balances'[REVENUE_GOLD].balance = 0 - sess[s].req.amount
  ]_vars

\* C22, amended: the commit of a spend of m adds m to the revenue account's
\* cached balance (the revenue account is the credited side); starting from 0
\* it leaves +m.
C22_RevenueCreditedBySpend ==
  [][\A s \in Sessions :
       CommitsPosting(s, "SPEND")
       => /\ account_balances'[REVENUE_GOLD].balance =
               account_balances[REVENUE_GOLD].balance + sess[s].req.amount
          /\ account_balances[REVENUE_GOLD].balance = 0
               => account_balances'[REVENUE_GOLD].balance = sess[s].req.amount
  ]_vars

\* One spend has committed on the seeded store and the revenue account's
\* cached balance is its amount.
C22_Witness ==
  \E r \in responses :
    /\ r.status = 201 /\ r.req.flow = "SPEND"
    /\ Cardinality(FlowTransactions) = 1
    /\ account_balances[REVENUE_GOLD].balance = r.req.amount

C24_SystemDebitUnchecked ==
  /\ \A s \in Sessions :
       sess[s].err.code = "INSUFFICIENT_BALANCE" => sess[s].req.flow = "SPEND"
  /\ \A r \in responses :
       r.code = "INSUFFICIENT_BALANCE" => r.req.flow = "SPEND"
  /\ \A r \in responses :
       (r.status = 201 /\ r.req.flow \in {"TOP_UP", "BONUS"})
       => account_balances[Counterparty(r.req.flow).id].balance < 0

\* A top-up and a bonus have committed, each debiting a system account that
\* had nothing: the treasury and the bonus pool are both below zero.
C24_Witness ==
  /\ \E r \in responses : r.status = 201 /\ r.req.flow = "TOP_UP"
  /\ \E r \in responses : r.status = 201 /\ r.req.flow = "BONUS"
  /\ account_balances[TREASURY_GOLD].balance < 0
  /\ account_balances[BONUS_GOLD].balance < 0

\* ------------------------------------------------------------------- C25
\* A committed transaction row carries the reference and no live idempotency
\* record does: the record expired, or the row was seeded without one.
RowWithoutRecord(ref) ==
  /\ \E t \in transactions : t.reference_id = ref
  /\ ~ LiveRecord(ref)

\* The session s answers its call in this step, and not with a replay.
AnswersUnreplayed(s) ==
  /\ sess[s].pc \in {"commit", "rollback"}
  /\ ~ sess[s].result.idempotent
  /\ sess'[s].pc = "idle"

\* The idempotency lookup of a call whose reference has a row but no live
\* record finds nothing: the call is not answered from the record.
NoReplayWithoutRecord ==
  \A s \in Sessions :
    ( /\ sess[s].pc = "begin"
      /\ RowWithoutRecord(sess[s].req.referenceId)
      /\ sess'[s] # sess[s] )
    => /\ sess'[s].pc # "commit"
       /\ ~ sess'[s].result.idempotent

\* C25 as stated: a call whose reference has a transaction row and no live
\* idempotency record is not replayed; it is answered 409
\* DUPLICATE_REFERENCE and the store is left as it was.
C25_AlwaysDuplicateReference ==
  [][ /\ NoReplayWithoutRecord
      /\ \A s \in Sessions :
           (AnswersUnreplayed(s) /\ RowWithoutRecord(sess[s].req.referenceId))
           => /\ UNCHANGED store
              /\ \E r \in responses' \ responses :
                   r.status = 409 /\ r.code = "DUPLICATE_REFERENCE"
  ]_vars

\* C25 as amended: such a call is not replayed and it fails, leaving the
\* store as it was: with 409 DUPLICATE_REFERENCE when it reaches the insert
\* of its transaction row, and otherwise with the error that stops it before
\* (ACCOUNT_NOT_FOUND, INSUFFICIENT_BALANCE, the top-up's asset check, or a
\* transient error on the last execution withTransaction allows).
C25_FailsWithoutReplay ==
  [][ /\ NoReplayWithoutRecord
      /\ \A s \in Sessions :
           (AnswersUnreplayed(s) /\ RowWithoutRecord(sess[s].req.referenceId))
           => /\ UNCHANGED store
              /\ \E r \in responses' \ responses :
                   /\ r.status >= 400
                   /\ \/ r.status = 409 /\ r.code = "DUPLICATE_REFERENCE"
                      \/ BusinessError(r)
                      \/ /\ r.status = 500
                         /\ r.attempt = maxRetries - 1
                         /\ isRetryable(sess[s].err)
  ]_vars

\* A call was answered 201, its idempotency record expired, and a further
\* call with its reference was answered 409; a call with the reference of the
\* seeded transaction, which never had a record, was answered 409 too.
C25_Witness ==
  \E r1 \in responses, r2 \in responses, r3 \in responses :
    /\ r1.status = 201
    /\ ExpiredRecord(r1.req.referenceId)
    /\ r2.req.referenceId = r1.req.referenceId
    /\ r2.seq > r1.seq
    /\ r2.status = 409 /\ r2.code = "DUPLICATE_REFERENCE"
    /\ r3.req.referenceId \in { t.reference_id : t \in SeedTransactions }
    /\ r3.status = 409 /\ r3.code = "DUPLICATE_REFERENCE"
    /\ transactions = SeedTransactions \cup
         { [id |-> r1.body.transactionId, type |-> r1.body.type,
            reference_id |-> r1.req.referenceId] }

\* ------------------------------------------------------------------- C26
\* The flow's system counterparty does not resolve by its external id.
Unresolved(flow) == flow \in Flows /\ Counterparty(flow) = NoRow

\* C26: a call of a flow whose system counterparty cannot be resolved, and
\* that is not answered from a live idempotency record, fails with status 500
\* (INTERNAL_ERROR): it never waits for or holds a row lock, never has a
\* write of its own, no step of it changes the store, and no transaction row
\* of that flow exists.
C26_MissingCounterpartyFailsEarly ==
  /\ [](/\ \A s \in Sessions :
             Unresolved(sess[s].req.flow)
             => /\ sess[s].pc \in {"begin", "rollback", "commit"}
                /\ sess[s].pc = "commit" => sess[s].result.idempotent
                /\ sess[s].pc = "rollback" => sess[s].err.statusCode = 500
                /\ sess[s].held = {}
                /\ sess[s].toLock = <<>>
                /\ sess[s].writes = NoWrites
        /\ \A r \in responses :
             (Unresolved(r.req.flow) /\ r.status # 200)
             => r.status = 500 /\ r.code = "INTERNAL_ERROR" /\ r.attempt = 0
        /\ \A t \in FlowTransactions : ~ Unresolved(t.type))
  /\ [][\A s \in Sessions :
          (Unresolved(sess[s].req.flow) /\ sess'[s] # sess[s]) => UNCHANGED store
       ]_vars

\* A call of the flow whose counterparty is missing was answered 500 while a
\* call of another flow committed.
C26_Witness ==
  \E r1 \in responses, r2 \in responses :
    /\ Unresolved(r1.req.flow)
    /\ r1.status = 500 /\ r1.code = "INTERNAL_ERROR"
    /\ ~ Unresolved(r2.req.flow)
    /\ r2.status = 201

\* ------------------------------------------------------------------- C27
\* A body validateBody must refuse on the claim's grounds.
ZeroNegativeOrNoReference(body) == body.amount <= 0 \/ body.referenceId = ""

\* C27: a request body whose amount is zero or negative, or that has no
\* referenceId, is answered 400 VALIDATION_ERROR and never reaches a flow: no
\* session ever runs such a request, and the step that answers it opens no
\* session and leaves the store unchanged.
C27_InvalidBodyRejectedBeforeFlow ==
  /\ [](/\ \A s \in Sessions :
             sess[s].req # NoReq => ~ ZeroNegativeOrNoReference(sess[s].req)
        /\ \A r \in responses :
             ZeroNegativeOrNoReference(r.req)
             => r.status = 400 /\ r.code = "VALIDATION_ERROR" /\ r.body = NoBody
        /\ \A t \in transactions : t.reference_id # "")
  /\ [][\A r \in responses' \ responses :
          ZeroNegativeOrNoReference(r.req)
          => UNCHANGED <<store, sess, nextTxId>>
       ]_vars

\* A zero amount, a negative amount and a body without referenceId were each
\* answered 400, and the store is the seeded one.
C27_Witness ==
  /\ \E r \in responses : r.req.amount = 0 /\ r.req.referenceId # "" /\ r.status = 400
  /\ \E r \in responses : r.req.amount < 0 /\ r.req.referenceId # "" /\ r.status = 400
  /\ \E r \in responses : r.req.amount > 0 /\ r.req.referenceId = "" /\ r.status = 400
  /\ \A r \in responses : r.code = "VALIDATION_ERROR"
  /\ transactions = SeedTransactions
  /\ ledger_entries = SeedLedgerEntries
  /\ idempotency_keys = {}
  /\ \A s \in Sessions : sess[s] = IdleSession

\* ------------------------------------------------------------- C28, C30
\* The journal entries of an account, each with its transaction row, that a
\* history call with the given type argument is about.
JournalOf(accountId, type) ==
  { j \in [le : ledger_entries, t : transactions] :
      /\ j.le.account_id = accountId
      /\ j.le.transaction_id = j.t.id
      /\ type = "" \/ j.t.type = type }

CreatedOf(transactionId) ==
  created_at(CHOOSE t \in transactions : t.id = transactionId)

\* C28: the page query of getTransactionHistory(account, limit, offset, type)
\* returns at most limit rows; they are the entries of the account's journal
\* (of the given type, when one is given) ranked offset+1, offset+2, ... in
\* descending creation order, each with amount the negation of the stored
\* amount and balanceAfter as stored; the count query returns the number of
\* all such entries, whatever limit and offset are.
C28_HistoryPageAndTotal ==
  [][\A s \in Sessions :
       LET q == sess[s].query
           M == JournalOf(q.accountId, q.type)
           n == Cardinality(M)
       IN /\ (sess[s].pc = "entries" /\ sess'[s].pc = "count") =>
               LET rows == sess'[s].query.entries
                   rest == IF n > q.offset THEN n - q.offset ELSE 0
               IN /\ Len(rows) <= q.limit
                  /\ Len(rows) = IF q.limit < rest THEN q.limit ELSE rest
                  /\ \A i \in 1..Len(rows) :
                       /\ \E j \in M :
                            rows[i] =
                              [transactionId |-> j.t.id, type |-> j.t.type,
                               referenceId |-> j.t.reference_id,
                               amount |-> 0 - j.le.amount,
                               balanceAfter |-> j.le.balance_after]
                       /\ Cardinality({ j \in M : created_at(j.t) > CreatedOf(rows[i].transactionId) })
                            <= q.offset + i - 1
                       /\ Cardinality({ j \in M : created_at(j.t) >= CreatedOf(rows[i].transactionId) })
                            >= q.offset + i
          /\ (sess[s].pc = "count" /\ sess'[s].pc = "answer") =>
               sess'[s].query.total = n
  ]_vars

\* A history call on Alice with limit 1 and offset 1, made after a bonus and
\* a spend committed, is about to answer total 3 and the middle entry of her
\* journal.
C28_Witness ==
  \E s \in Sessions :
    /\ sess[s].pc = "answer"
    /\ sess[s].query.accountId = ALICE
    /\ sess[s].query.type = ""
    /\ sess[s].query.limit = 1 /\ sess[s].query.offset = 1
    /\ sess[s].query.total = 3
    /\ Len(sess[s].query.entries) = 1
    /\ sess[s].query.entries[1].transactionId = FirstTxId
    /\ \E t \in transactions : t.id = FirstTxId + 1
    /\ sess[s].query.entries[1].amount \in {200, -200}
    /\ sess[s].query.entries[1].amount = 200 <=> sess[s].query.entries[1].type = "BONUS"

\* C30: the entries and the total of one getTransactionHistory answer
\* describe one committed state: the number of entries returned is the number
\* of entries a journal of total entries has from offset on, up to limit.
C30_HistoryFromOneSnapshot ==
  \A s \in Sessions :
    (sess[s].pc = "answer" /\ sess[s].err = NoErr)
    => LET q    == sess[s].query
           rest == IF q.total > q.offset THEN q.total - q.offset ELSE 0
       IN Len(q.entries) = IF q.limit < rest THEN q.limit ELSE rest

\* ------------------------------------------------------------------- C29
\* C29: a call whose reference has a live idempotency record takes its
\* answer from the record without contending for a row lock: its lookup and
\* its answer can always proceed, whatever locks the other sessions hold, the
\* lookup leads straight to the answer, and the call neither holds a lock
\* nor waits for one.
C29_ReplayTakesNoLock ==
  /\ [](\A s \in Sessions :
          /\ (sess[s].pc = "begin" /\ LiveRecord(sess[s].req.referenceId))
               => ENABLED Begin(s)
          /\ (sess[s].pc = "commit" /\ sess[s].result.idempotent)
               => /\ sess[s].held = {}
                  /\ sess[s].toLock = <<>>
                  /\ ENABLED Commit(s))
  /\ [][\A s \in Sessions :
          ( /\ sess[s].pc = "begin"
            /\ LiveRecord(sess[s].req.referenceId)
            /\ sess'[s] # sess[s] )
          => /\ sess'[s].pc = "commit"
             /\ sess'[s].result.idempotent
             /\ sess'[s].held = {}
             /\ sess'[s].toLock = <<>>
       ]_vars

\* A replay is about to be answered while another session holds the row
\* locks of the same user account and of the system account the replayed
\* call had posted against.
C29_Witness ==
  \E s \in Sessions, t \in Sessions :
    /\ s # t
    /\ sess[s].pc = "commit"
    /\ sess[s].result.idempotent
    /\ sess[s].result.accountId \in sess[t].held
    /\ Counterparty(sess[s].result.type).id \in sess[t].held
    /\ sess[t].req.referenceId # sess[s].req.referenceId

C32_WritesUnderRowLock ==
  /\ [](\A s \in Sessions :
          /\ \A i \in 1..Len(sess[s].writes.updates) :
               LET u == sess[s].writes.updates[i]
               IN /\ u.account_id \in sess[s].held
                  /\ u.account_id \notin HeldByOthers(s)
                  /\ account_balances[u.account_id] = sess[s].snap[u.account_id]
                  /\ u.balance \in { sess[s].snap[u.account_id].balance + sess[s].req.amount,
                                     sess[s].snap[u.account_id].balance - sess[s].req.amount }
          /\ sess[s].pc = "body" =>
               /\ sess[s].sys \in sess[s].held
               /\ Find(getAccountsWithLock(sess[s].snap, {sess[s].req.accountId, sess[s].sys}),
                       sess[s].sys) # NoRow)
  /\ [][\A s \in Sessions : \A id \in AccountIds :
          (sess[s].pc = "commit" /\ sess'[s].pc = "idle"
             /\ account_balances'[id] # account_balances[id])
          => id \in sess[s].held
       ]_vars

\* A posting on a user account is about to commit with the locks of the user
\* row and of the counterparty's row held, while another session waits for
\* one of them.
C32_Witness ==
  \E s \in Sessions, t \in Sessions :
    /\ sess[s].pc = "commit"
    /\ Len(sess[s].writes.updates) = 2
    /\ sess[s].held = {sess[s].req.accountId, sess[s].sys}
    /\ sess[s].req.accountId # sess[s].sys
    /\ sess[t].pc = "lock"
    /\ Head(sess[t].toLock) \in sess[s].held

\* ------------------------------------------------------------------- C33
RECURSIVE SumBalances(_, _)
SumBalances(bal, ids) ==
  IF ids = {} THEN 0
  ELSE LET id == CHOOSE x \in ids : TRUE
       IN bal[id].balance + SumBalances(bal, ids \ {id})

\* C33: the commit of a posting of any flow, on any accountId the flow
\* accepts, leaves the sum of all cached balances unchanged.
C33_CommitIsZeroSumOverCache ==
  [][\A s \in Sessions :
       (sess[s].pc = "commit" /\ ~ sess[s].result.idempotent /\ sess'[s].pc = "idle")
       => SumBalances(account_balances', AccountIds) = SumBalances(account_balances, AccountIds)
  ]_vars

\* ------------------------------------------------------------------- C37
\* C37: at the commit of a posting, every journal entry it appends has
\* balance_after equal to the account's cached balance before the commit
\* minus the entry's amount, and the account's cached balance after the commit
\* is the balance_after of the entry appended for that account.
C37_BalanceAfterIsRunningBalance ==
  [][\A s \in Sessions :
       (sess[s].pc = "commit" /\ ~ sess[s].result.idempotent /\ sess'[s].pc = "idle")
       => \A e \in sess[s].writes.ledger_entries :
            /\ e \in ledger_entries'
            /\ e.balance_after = account_balances[e.account_id].balance - e.amount
            /\ account_balances'[e.account_id].balance = e.balance_after
  ]_vars

\* ------------------------------------------------------------------- C38
\* The session s leaves withTransaction in this step and the caller is
\* answered.
Leaves(s) == sess[s].pc \in {"commit", "rollback"} /\ sess'[s].pc = "idle"

\* C38: withTransaction terminates whatever statements fail transiently: no
\* call is executed more than maxRetries times; every call that has started
\* is eventually answered; it is answered either by the step that commits its
\* attempt, with that attempt's result (whose transaction row, when it posted,
\* is then in the store), or by a rollback step with the error the last
\* attempt threw and with the store unchanged; the writes of an attempt that
\* was rolled back, a failed COMMIT included, are never in the store and its
\* result is never the answer.
C38_WithTransactionTerminates ==
  /\ [](/\ \A s \in Sessions : sess[s].attempt < maxRetries
        /\ \A s \in Sessions :
             sess[s].pc = "rollback" =>
               /\ sess[s].result = NoBody
               /\ sess[s].writes.transactions \cap transactions = {}
               /\ sess[s].writes.ledger_entries \cap ledger_entries = {}
        /\ \A r \in responses :
             /\ r.attempt < maxRetries
             /\ r.status \in {200, 201} =>
                  \E t \in transactions :
                    t.id = r.body.transactionId /\ t.reference_id = r.body.referenceId
             /\ r.status \notin {200, 201} => r.body = NoBody)
  /\ [][\A s \in Sessions :
          /\ Leaves(s) =>
               \E r \in responses' \ responses :
                 /\ r.req = sess[s].req
                 /\ \/ /\ sess[s].pc = "commit"
                       /\ r.status \in {200, 201}
                       /\ r.body = sess[s].result
                       /\ sess[s].writes.transactions \subseteq transactions'
                       /\ sess[s].writes.ledger_entries \subseteq ledger_entries'
                    \/ /\ sess[s].pc = "rollback"
                       /\ r.status = errorHandler(sess[s].err).status
                       /\ r.code = errorHandler(sess[s].err).code
                       /\ ~ retryAllowed(sess[s].err, sess[s].attempt)
                       /\ UNCHANGED store
          /\ (sess[s].pc = "rollback" /\ sess'[s].pc = "begin") =>
               /\ sess'[s].attempt = sess[s].attempt + 1
               /\ sess'[s].writes = NoWrites
               /\ UNCHANGED <<store, responses>>
       ]_vars
  /\ \A s \in Sessions : (sess[s].pc # "idle") ~> (sess[s].pc = "idle")

\* One call was answered 500 after its third execution failed transiently,
\* the other committed on a later execution than its first, and an execution
\* that had written its rows was rolled back (its transaction id is used up
\* and in no row).
C38_Witness ==
  \E r1 \in responses, r2 \in responses :
    /\ r1.status = 500 /\ r1.attempt = maxRetries - 1
    /\ r2.status = 201 /\ r2.attempt >= 1
    /\ Cardinality(FlowTransactions) = 1
    /\ nextTxId >= FirstTxId + 2

\* ------------------------------------------------------------------- C34
\* The idempotency records stored under a reference.
RecordsOf(ref) == { k \in idempotency_keys : k.key = ref }

\* C34: a flow commits all of its rows or none. Every transaction row a flow
\* wrote has exactly two journal entries and exactly one idempotency record
\* under its reference, whose stored body names that transaction's id; every
\* idempotency record and every journal entry a flow wrote has its
\* transaction row; the tables change only in the step that commits an
\* attempt, which adds all of that attempt's rows at once; an attempt that
\* fails, is rolled back or is retried leaves the tables as they were.
C34_FlowIsAtomic ==
  /\ [](/\ \A t \in FlowTransactions :
             /\ Cardinality(EntriesOfTransaction(t)) = 2
             /\ Cardinality(RecordsOf(t.reference_id)) = 1
             /\ \A k \in RecordsOf(t.reference_id) : k.response_body.transactionId = t.id
        /\ \A k \in idempotency_keys :
             \E t \in FlowTransactions : t.reference_id = k.key
        /\ \A e \in ledger_entries \ SeedLedgerEntries :
             \E t \in FlowTransactions : t.id = e.transaction_id)
  /\ [][/\ store' # store =>
             \E s \in Sessions :
               /\ sess[s].pc = "commit" /\ sess'[s].pc = "idle"
               /\ transactions' = transactions \cup sess[s].writes.transactions
               /\ ledger_entries' = ledger_entries \cup sess[s].writes.ledger_entries
               /\ idempotency_keys' = idempotency_keys \cup sess[s].writes.idempotency_keys
               /\ Cardinality(sess[s].writes.transactions) = 1
               /\ Cardinality(sess[s].writes.ledger_entries) = 2
               /\ Cardinality(sess[s].writes.idempotency_keys) = 1
        /\ \A s \in Sessions :
             (sess'[s] # sess[s] /\ (sess'[s].pc = "rollback" \/ sess[s].pc = "rollback"))
               => UNCHANGED store
       ]_vars

\* A flow has committed its rows while another attempt, which had written
\* its transaction row, both entries and its record, failed at COMMIT and is
\* being rolled back.
C34_Witness ==
  /\ Cardinality(FlowTransactions) = 1
  /\ \E s \in Sessions :
       /\ sess[s].pc = "rollback"
       /\ Cardinality(sess[s].writes.ledger_entries) = 2
       /\ sess[s].writes.idempotency_keys # {}

\* ------------------------------------------------------------------- C35
\* C35: the idempotency lookup is keyed by the reference alone. A call whose
\* reference has a live record goes from BEGIN straight to COMMIT with the
\* stored body tagged idempotent = true, no error and no write, whatever its
\* flow, account and amount are; the step that answers it leaves the tables
\* unchanged and answers 200 with that body; every 200 answer is the tagged
\* body stored under the reference of the call.
C35_LookupKeyedByReferenceAlone ==
  /\ [](\A r \in responses :
          r.status = 200 =>
            /\ r.code = ""
            /\ \E k \in RecordsOf(r.req.referenceId) : r.body = Tagged(k.response_body))
  /\ [][\A s \in Sessions :
          /\ (sess[s].pc = "begin" /\ sess'[s] # sess[s] /\ LiveRecord(sess[s].req.referenceId)) =>
               /\ sess'[s].pc = "commit"
               /\ \E k \in RecordsOf(sess[s].req.referenceId) :
                    sess'[s].result = Tagged(k.response_body)
               /\ sess'[s].err = NoErr
               /\ sess'[s].writes = NoWrites
               /\ sess'[s].toLock = <<>>
               /\ UNCHANGED store
          /\ (sess[s].pc = "commit" /\ sess[s].result.idempotent /\ sess'[s] # sess[s]) =>
               /\ sess'[s].pc = "idle"
               /\ UNCHANGED store
               /\ \E r \in responses' \ responses :
                    r.req = sess[s].req /\ r.status = 200 /\ r.body = sess[s].result
       ]_vars

\* A call was answered 200 with the stored response of a posting of another
\* flow, on another account, of another amount.
C35_Witness ==
  \E r \in responses :
    /\ r.status = 200
    /\ r.body.idempotent
    /\ r.req.flow # r.body.type
    /\ r.req.accountId # r.body.accountId
    /\ r.req.amount # r.body.amount

\* ------------------------------------------------------------------- C36
\* No call with this reference has been answered 201.
NeverPosted(ref) == \A r \in responses : r.req.referenceId = ref => r.status # 201

\* C36: only successful executions are captured. A call that fails with an
\* error of its flow has written nothing when it fails, and the step that
\* answers it leaves the tables unchanged; every idempotency record and every
\* transaction row a flow wrote belongs to a call that was answered 201 with
\* that body; a call whose reference was so far used by failed calls only is
\* not answered from a record and is not refused as a duplicate: it executes
\* its flow again.
C36_OnlySuccessIsCaptured ==
  /\ [](/\ \A s \in Sessions :
             (sess[s].pc = "rollback" /\ ~ isRetryable(sess[s].err)) =>
               sess[s].writes = NoWrites /\ sess[s].result = NoBody
        /\ \A k \in idempotency_keys :
             \E r \in responses :
               r.status = 201 /\ r.req.referenceId = k.key /\ r.body = k.response_body
        /\ \A t \in FlowTransactions :
             \E r \in responses :
               /\ r.status = 201 /\ r.req.referenceId = t.reference_id
               /\ r.body.transactionId = t.id)
  /\ [][\A s \in Sessions :
          /\ (sess[s].pc = "rollback" /\ sess'[s].pc = "idle") =>
               /\ UNCHANGED store
               /\ \E r \in responses' \ responses :
                    r.req = sess[s].req /\ r.status \notin {200, 201} /\ r.body = NoBody
          /\ (sess[s].pc = "begin" /\ sess'[s] # sess[s]
                /\ NeverPosted(sess[s].req.referenceId)) =>
               /\ sess'[s].pc # "commit"
               /\ ~ sess'[s].result.idempotent
          /\ (sess[s].pc = "body" /\ sess'[s] # sess[s]
                /\ NeverPosted(sess[s].req.referenceId)) =>
               sess'[s].err.code # "23505"
       ]_vars

\* A spend was refused for lack of funds and, after a top-up of the account,
\* the same request with the same reference was answered 201.
C36_Witness ==
  \E r1 \in responses, r2 \in responses, r3 \in responses :
    /\ r1.seq < r2.seq /\ r2.seq < r3.seq
    /\ r1.code = "INSUFFICIENT_BALANCE" /\ r1.req.flow = "SPEND"
    /\ r2.status = 201 /\ r2.req.flow = "TOP_UP" /\ r2.req.accountId = r1.req.accountId
    /\ r3.status = 201 /\ r3.req = r1.req

\* ------------------------------------------------------------------- C39
\* The locking query of a flow returns a row for this account id.
Found(id) == Find(getAccountsWithLock(account_balances, {id}), id) # NoRow

\* The account and the flow's system counterparty hold the same asset.
SameAsset(id, flow) == accounts[id].asset_type_id = Counterparty(flow).asset_type_id

\* C39: a live idempotency record is honoured before every other check, and
\* the failures are reported in the order configuration error,
\* ACCOUNT_NOT_FOUND, asset mismatch, INSUFFICIENT_BALANCE. A call whose
\* reference has a live record at BEGIN is replayed, whether or not its
\* account exists, its balance covers the amount and its counterparty
\* resolves; a call answered ACCOUNT_NOT_FOUND had its counterparty resolved;
\* a call refused for an asset mismatch had, besides, its account found; a
\* call answered INSUFFICIENT_BALANCE had, besides, an account of the
\* counterparty's asset.
C39_ReplayFirstThenFailuresInOrder ==
  /\ [](\A r \in responses :
          /\ r.code = "ACCOUNT_NOT_FOUND" => ~ Unresolved(r.req.flow)
          /\ (r.status = 400 /\ r.code = "INTERNAL_ERROR") =>
               ~ Unresolved(r.req.flow) /\ Found(r.req.accountId)
          /\ r.code = "INSUFFICIENT_BALANCE" =>
               /\ ~ Unresolved(r.req.flow)
               /\ Found(r.req.accountId)
               /\ SameAsset(r.req.accountId, r.req.flow))
  /\ [][\A s \in Sessions :
          (sess[s].pc = "begin" /\ sess'[s] # sess[s] /\ LiveRecord(sess[s].req.referenceId)) =>
            /\ sess'[s].pc = "commit"
            /\ sess'[s].result.idempotent
            /\ sess'[s].err = NoErr
       ]_vars
====
